---------------------------- MODULE Spec2Model ----------------------------
(***************************************************************************)
(* State-machine model of the proctoring core of RUBIX26_15_ICodeSpeed     *)
(* (Mustan_ML_Stuff/modules): the alert state store (AlertCommunicator),   *)
(* the streak tracker and session logger (AlertTracker, ProctorLogger) and *)
(* the per-frame controller (ProctorPipeline.process_frame).               *)
(*                                                                         *)
(* Time is the value time.time() returns, counted in ticks; `now` only     *)
(* moves forward.  One specification per component keeps the state spaces  *)
(* apart: every specification constrains all variables and leaves the ones *)
(* of the other components unchanged.                                      *)
(***************************************************************************)
EXTENDS Integers, Sequences, FiniteSets, TLC

VARIABLES
    now,              \* time.time()
    alert_state,      \* AlertCommunicator.alert_state
    alert_cooldowns,  \* AlertCommunicator.alert_cooldowns
    pending_write,    \* AlertCommunicator.pending_write
    last_write_time,  \* AlertCommunicator.last_write_time
    files,            \* the log directory: path -> document (token sequence) or Absent
    call,             \* history: the last call made on the store and its arguments
    ret,              \* history: what that call returned
    last_honoured,    \* history: per index, time of the last honoured activation (-1: none)
    last_request,     \* history: per index, time of the last unforced activation request
    rapid,            \* history: the last call was an activation honoured inside the cooldown window
    gap,              \* history: if the last call took a slot from 0 to 1 again, the time since its previous 0-to-1 transition, counted up to cooldown_duration (else -1)
    active_streaks,   \* AlertTracker.active_streaks, in insertion order
    session_alerts,   \* ProctorLogger.session_data['alerts']
    total_alerts,     \* ProctorLogger.session_data['statistics']['total_alerts']
    alert_types,      \* ProctorLogger.session_data['statistics']['alert_types']
    log_lines,        \* the lines written to test.log by log_alert
    tracker_ret,      \* history: what should_log returned to the last log_alert
    log_calls,        \* history: the alert types of the log_alert calls, in order
    runs,             \* history: per alert type, its current run of events closer than the timeout
    wpc,              \* where the writer stands inside flush_if_needed / force_write
    wcall,            \* the call the writer is in, the time it read and whether it replaced the file
    rfd,              \* the file the reader holds open: "none", "alert" or "orphan"
    orphan,           \* content of the replaced file a reader still holds open
    read_result,      \* history: the last document a reader read to the end, parsed
    published,        \* history: the vectors published, and whether the last read met a write
    fpc,              \* where process_frame stands ("idle": outside any call)
    frame,            \* what the collaborators reported for the frame being processed
    frame_counter,    \* ProctorPipeline.frame_counter
    frame_stats,      \* total_frames_captured, total_frames_processed, statistics['total_frames']
    frame_written,    \* history: the vector the flush of the current frame wrote to the alert file
    end_time,         \* ProctorLogger.session_data['end_time'] (None until save_session)
    alerts_file,      \* the session summary file session_<id>_alerts.json
    handlers,         \* whether the file handler of test.log is still attached
    summary,          \* the value the last get_session_summary returned
    cpc,              \* where ProctorPipeline.cleanup stands ("idle": outside any call)
    session_hist,     \* history: teardowns begun, close() calls, end_time assignments, summary writes, teardown steps entered
    shm,              \* the memory-mapped frame file: header fields and payload bytes
    bw,               \* the writer inside write_frame: position, frame, return value
    br,               \* the reader inside read_frame: position, header read, frame returned
    buf_hist,         \* history: the last frame written successfully, reads and writes that met
    rpc,              \* where CameraPipeline.run stands ("start": not yet called)
    camera,           \* the capture device: "closed", "ok", or "dead" (every read fails)
    detectors,        \* which collaborators _initialize_detectors has loaded (<<>>: not yet run)
    run_hist,         \* history: frames read, how initialize ended, why the loop stopped
    lock,             \* ProctorLogger.lock: "free" or the thread that holds it
    lpc               \* the threads inside log_alert (pc) and get_session_summary (spc); history: the last event whose line was emitted

storeVars == <<alert_state, alert_cooldowns, pending_write, last_write_time, ret>>
histVars  == <<call, last_honoured, last_request, rapid, gap>>
loggerVars == <<active_streaks, session_alerts, total_alerts, alert_types, log_lines>>
logHistVars == <<tracker_ret, log_calls, runs>>
logVars == <<loggerVars, logHistVars>>
writerVars == <<wpc, wcall>>
readerVars == <<rfd, orphan, read_result>>
pubVars == <<writerVars, readerVars, published>>
frameVars == <<fpc, frame, frame_counter, frame_stats, frame_written>>
sessionVars == <<end_time, alerts_file, handlers, summary, cpc, session_hist>>
bufferVars == <<shm, bw, br, buf_hist>>
runVars == <<rpc, camera, detectors, run_hist>>
lockVars == <<lock, lpc>>
\* The variables outside the alert store and its file, outside the logger,
\* outside the publication and outside the frame controller.
notStore == <<logVars, pubVars, frameVars, sessionVars, bufferVars, lockVars, runVars>>
notLogger == <<storeVars, files, histVars, pubVars, frameVars, sessionVars, bufferVars, lockVars, runVars>>
notPublish == <<histVars, logVars, frameVars, sessionVars, bufferVars, lockVars, runVars>>
notFrame == <<histVars, pubVars, log_calls, runs, sessionVars, bufferVars, lockVars, runVars>>
notSession == <<histVars, pubVars, frameVars, bufferVars, lockVars, runVars>>
notBuffer == <<storeVars, files, histVars, logVars, pubVars, frameVars, sessionVars, runVars, lockVars>>
vars == <<now, storeVars, files, histVars, logVars, pubVars, frameVars, sessionVars, bufferVars, lockVars, runVars>>

(***************************************************************************)
(* Bounds of the model and parameters of the constructor.                  *)
(***************************************************************************)
\* AlertCommunicator(write_interval=..., cooldown_duration=...), in ticks.
write_interval == 1
cooldown_duration == 2
\* How far the clock runs past the start of the session.
Horizon == 4
\* How far the clock runs in a logging session, and how many alerts it logs.
LogHorizon == 8
MaxLogCalls == 4
\* How many distinct alert kinds one session activates.
MaxKinds == 1
\* ProctorPipeline(frame_skip=...), how many frames the camera delivers (or,
\* with the later stages disabled, how many are processed) and how far the
\* clock runs meanwhile.
frame_skip == 1
MaxFrames == 5
MaxProcessed == 3
FrameHorizon == 2
\* How often cleanup() is entered, how many alerts a session logs before it
\* and how far the clock runs meanwhile.
MaxTeardowns == 2
MaxSessionCalls == 2
SessionHorizon == 2
\* SharedFrameBuffer.MAX_FRAME_SIZE scaled down, and the largest width and
\* height of a frame.
MAX_FRAME_SIZE == 6
MaxDim == 2

\* time.time() at construction: far beyond both durations (epoch seconds),
\* while alert_cooldowns and last_write_time start at 0.
StartTime == cooldown_duration + write_interval + 1
MaxTime == StartTime + Horizon

(***************************************************************************)
(* AlertCommunicator                                                       *)
(***************************************************************************)
ALERT_PHONE == 0
ALERT_NO_FACE == 1
ALERT_MULTI_FACE == 2
ALERT_FACE_MISMATCH == 3
ALERT_EYE_MOVEMENT == 4

\* range(len(self.alert_state))
Kinds == 0..4
ZeroState == [i \in Kinds |-> 0]

AlertFile == "alert_state.txt"
\* temp_file = self.alert_file + '.tmp'
TempFileInPlace == AlertFile
TempFile == "alert_state.txt.tmp"
Paths == {AlertFile, TempFile}
Absent == <<"ENOENT">>

\* json.dump of a list of 0/1: the token sequence "[", b0, ..., b4, "]"
Digit(b) == IF b = 1 THEN "1" ELSE "0"
Dump(vec) == <<"[">> \o [i \in 1..5 |-> Digit(vec[i - 1])] \o <<"]">>

\* json.loads as the consumer does it: a document is a vector only if it is
\* a bracketed list; anything else (empty, truncated) is a parse error.
WellFormed(doc) ==
    /\ Len(doc) >= 2
    /\ doc[1] = "["
    /\ doc[Len(doc)] = "]"
    /\ \A k \in 2..(Len(doc) - 1) : doc[k] \in {"0", "1"}
Parse(doc) ==
    IF doc # Absent /\ WellFormed(doc)
    THEN [ok |-> TRUE, vec |-> [k \in 1..(Len(doc) - 2) |-> IF doc[k + 1] = "1" THEN 1 ELSE 0]]
    ELSE [ok |-> FALSE, vec |-> <<>>]

\* value = 1 if value else 0
Normalize(value) == IF value THEN 1 ELSE 0

\* File-system primitives used by _write_state.
FsOpenW(fs, p) == [fs EXCEPT ![p] = <<>>]
FsWrite(fs, p, chunk) == [fs EXCEPT ![p] = @ \o chunk]
FsReplace(fs, src, dst) ==
    IF src = dst THEN fs
    ELSE [q \in DOMAIN fs |-> IF q = dst THEN fs[src] ELSE IF q = src THEN Absent ELSE fs[q]]

\* Outcomes of one _write_state call: the write succeeds, open()/json.dump
\* raises, or os.replace raises.  Every exception is caught and logged.
WriteOutcomes == {"ok", "fail_open", "fail_replace"}
write_state(fs, vec, outcome) ==
    IF outcome = "fail_open" THEN fs
    ELSE LET written == FsWrite(FsOpenW(fs, TempFile), TempFile, Dump(vec))
         IN IF outcome = "fail_replace" THEN written
            ELSE FsReplace(written, TempFile, AlertFile)

\* The cooldown check of set_alert: only for an activation without force.
InCooldownNoValueCheck(index, value, force, t) ==
    /\ ~force
    /\ t - alert_cooldowns[index] < cooldown_duration
InCooldownNever(index, value, force, t) == FALSE
InCooldownShortWindow(index, value, force, t) ==
    /\ ~force
    /\ value = 1
    /\ t - alert_cooldowns[index] < cooldown_duration - 1
InCooldownIgnoresForce(index, value, force, t) ==
    /\ value = 1
    /\ t - alert_cooldowns[index] < cooldown_duration
InCooldown(index, value, force, t) ==
    /\ ~force
    /\ value = 1
    /\ t - alert_cooldowns[index] < cooldown_duration

set_alert(index, val, force) ==
    LET value == Normalize(val)
        current_time == now
    IN IF index < 0 \/ index >= 5
       THEN /\ ret' = FALSE
            /\ UNCHANGED <<alert_state, alert_cooldowns, pending_write>>
       ELSE IF InCooldown(index, value, force, current_time)
       THEN /\ ret' = FALSE
            /\ UNCHANGED <<alert_state, alert_cooldowns, pending_write>>
       ELSE IF alert_state[index] # value
       THEN /\ alert_state' = [alert_state EXCEPT ![index] = value]
            /\ pending_write' = TRUE
            /\ alert_cooldowns' =
                 IF value = 1 THEN [alert_cooldowns EXCEPT ![index] = current_time]
                 ELSE alert_cooldowns
            /\ ret' = TRUE
       ELSE /\ ret' = FALSE
            /\ UNCHANGED <<alert_state, alert_cooldowns, pending_write>>

set_phone_detected(detected) == set_alert(ALERT_PHONE, detected, TRUE)
set_no_face(detected) == set_alert(ALERT_NO_FACE, detected, FALSE)
set_multiple_faces(detected) == set_alert(ALERT_MULTI_FACE, detected, FALSE)
set_face_mismatch(detected) == set_alert(ALERT_FACE_MISMATCH, detected, FALSE)
set_eye_movement(detected) == set_alert(ALERT_EYE_MOVEMENT, detected, FALSE)

\* The kinds the session has activated so far.
Activated == {i \in Kinds : alert_cooldowns[i] # 0}

\* One of the five setters, by the index it sets.
Setter(index, detected) ==
    CASE index = ALERT_PHONE -> set_phone_detected(detected)
      [] index = ALERT_NO_FACE -> set_no_face(detected)
      [] index = ALERT_MULTI_FACE -> set_multiple_faces(detected)
      [] index = ALERT_FACE_MISMATCH -> set_face_mismatch(detected)
      [] index = ALERT_EYE_MOVEMENT -> set_eye_movement(detected)
Forced(index) == index = ALERT_PHONE

clear_alert(index) ==
    IF index < 0 \/ index >= 5
    THEN /\ ret' = FALSE
         /\ UNCHANGED <<alert_state, pending_write>>
    ELSE IF alert_state[index] = 1
    THEN /\ alert_state' = [alert_state EXCEPT ![index] = 0]
         /\ pending_write' = TRUE
         /\ ret' = TRUE
    ELSE /\ ret' = FALSE
         /\ UNCHANGED <<alert_state, pending_write>>

clear_all_alertsKeepsClean ==
    IF \E i \in Kinds : alert_state[i] # 0
    THEN /\ alert_state' = ZeroState
         /\ pending_write' = pending_write
         /\ ret' = TRUE
    ELSE /\ ret' = FALSE
         /\ UNCHANGED <<alert_state, pending_write>>
clear_all_alerts ==
    IF \E i \in Kinds : alert_state[i] # 0
    THEN /\ alert_state' = ZeroState
         /\ pending_write' = TRUE
         /\ ret' = TRUE
    ELSE /\ ret' = FALSE
         /\ UNCHANGED <<alert_state, pending_write>>

\* The interval test of flush_if_needed.
FlushDue(t) == t - last_write_time >= write_interval

\* What flush_if_needed does to pending_write once _write_state has returned.
PendingAfterWrite(outcome) == FALSE

\* flush_if_needed with the outcome of the _write_state call it may make.
flush_if_needed(outcome) ==
    IF ~pending_write
    THEN /\ ret' = FALSE
         /\ UNCHANGED <<pending_write, last_write_time, files>>
    ELSE IF FlushDue(now)
    THEN /\ files' = write_state(files, alert_state, outcome)
         /\ pending_write' = PendingAfterWrite(outcome)
         /\ last_write_time' = now
         /\ ret' = TRUE
    ELSE /\ ret' = FALSE
         /\ UNCHANGED <<pending_write, last_write_time, files>>

force_write(outcome) ==
    /\ files' = write_state(files, alert_state, outcome)
    /\ pending_write' = FALSE
    /\ last_write_time' = now
    /\ ret' = FALSE

\* AlertCommunicator.__init__: zeros everywhere, the file initialised with zeros.
InitStore ==
    /\ alert_state = ZeroState
    /\ alert_cooldowns = [i \in Kinds |-> 0]
    /\ pending_write = FALSE
    /\ last_write_time = 0
    /\ files = write_state([p \in Paths |-> Absent], ZeroState, "ok")
    /\ ret = FALSE

(***************************************************************************)
(* AlertTracker and ProctorLogger                                          *)
(***************************************************************************)
\* ProctorLogger.__init__: AlertTracker(streak_timeout=5.0)
streak_timeout == 5

\* Alert types the pipeline logs for the conditions it detects.
AlertTypes == {"no_face", "multiple_faces", "cheating_phone_detected"}
SeverityOf(alert_type) ==
    IF alert_type = "cheating_phone_detected" THEN "critical" ELSE "warning"

\* _check_timeouts: time_since_last > self.streak_timeout
StreakEndedAtTimeout(streak, current_time) ==
    current_time - streak.last_ts >= streak_timeout
StreakEnded(streak, current_time) ==
    current_time - streak.last_ts > streak_timeout

\* should_log: time_since_last <= self.streak_timeout
StreakContinues(streak, current_time) ==
    current_time - streak.last_ts <= streak_timeout

EndedRecord(streak) ==
    [alert_type |-> streak.alert_type,
     duration |-> streak.last_ts - streak.start_ts,
     count |-> streak.count]

\* _check_timeouts: the ended streaks, in dict order, and the streaks kept.
check_timeoutsKeepsKeys(streaks, current_time) ==
    LET Ended(st) == StreakEnded(st, current_time)
        gone == SelectSeq(streaks, Ended)
    IN [ended |-> [i \in 1..Len(gone) |-> EndedRecord(gone[i])],
        streaks |-> streaks]
check_timeouts(streaks, current_time) ==
    LET Ended(st) == StreakEnded(st, current_time)
        Kept(st) == ~StreakEnded(st, current_time)
        gone == SelectSeq(streaks, Ended)
    IN [ended |-> [i \in 1..Len(gone) |-> EndedRecord(gone[i])],
        streaks |-> SelectSeq(streaks, Kept)]

\* Position of alert_type in the dict (0: not a key).
KeyIndex(streaks, alert_type) ==
    IF \E i \in 1..Len(streaks) : streaks[i].alert_type = alert_type
    THEN CHOOSE i \in 1..Len(streaks) : streaks[i].alert_type = alert_type
    ELSE 0

NewStreak(alert_type, current_time) ==
    [alert_type |-> alert_type, start_ts |-> current_time,
     last_ts |-> current_time, count |-> 1]

\* should_log: the returned tuple and the dict afterwards.
should_log(streaks, alert_type, current_time) ==
    LET swept == check_timeouts(streaks, current_time)
        act == swept.streaks
        k == KeyIndex(act, alert_type)
    IN IF k # 0
       THEN IF StreakContinues(act[k], current_time)
            THEN [should_log |-> FALSE, is_new_streak |-> FALSE,
                  streak_count |-> act[k].count + 1,
                  ended_streaks |-> swept.ended,
                  streaks |-> [act EXCEPT ![k].count = @ + 1,
                                          ![k].last_ts = current_time]]
            ELSE [should_log |-> TRUE, is_new_streak |-> TRUE, streak_count |-> 1,
                  ended_streaks |-> swept.ended,
                  streaks |-> [act EXCEPT ![k] = NewStreak(alert_type, current_time)]]
       ELSE [should_log |-> TRUE, is_new_streak |-> TRUE, streak_count |-> 1,
             ended_streaks |-> swept.ended,
             streaks |-> Append(act, NewStreak(alert_type, current_time))]

\* log_alert: the closing line of one ended streak (logger.warning).
EndedLine(ended) ==
    [kind |-> "ended", level |-> "WARNING", alert_type |-> ended.alert_type,
     seconds |-> ended.duration]
\* log_alert: the line of the alert itself, at the level of its severity.
AlertLine(alert_type, severity) ==
    [kind |-> "alert",
     level |-> IF severity = "critical" THEN "CRITICAL"
               ELSE IF severity = "warning" THEN "WARNING" ELSE "INFO",
     alert_type |-> alert_type, seconds |-> 0]

\* log_alert: if should_log_now and is_new_streak
ShouldEmitAlways(should_log_now, is_new_streak) == TRUE
ShouldEmit(should_log_now, is_new_streak) == should_log_now /\ is_new_streak

\* log_alert: the per-type counter of statistics['alert_types'].
CountTypeOverwrite(counts, alert_type) ==
    IF alert_type \in DOMAIN counts THEN [counts EXCEPT ![alert_type] = 1]
    ELSE [t \in DOMAIN counts \cup {alert_type} |-> IF t = alert_type THEN 1 ELSE counts[t]]
CountType(counts, alert_type) ==
    LET present == [t \in DOMAIN counts \cup {alert_type} |->
                        IF t \in DOMAIN counts THEN counts[t] ELSE 0]
    IN [present EXCEPT ![alert_type] = @ + 1]

\* metadata=None is stored as {}, here the empty sequence.
log_alert_metadata(alert_type, severity, metadata) ==
    LET current_time == now
        r == should_log(active_streaks, alert_type, current_time)
        alert == [type |-> alert_type, severity |-> severity,
                  metadata |-> metadata, streak_count |-> r.streak_count]
        closing == [i \in 1..Len(r.ended_streaks) |-> EndedLine(r.ended_streaks[i])]
    IN /\ active_streaks' = r.streaks
       /\ tracker_ret' = [should_log |-> r.should_log, is_new_streak |-> r.is_new_streak,
                          streak_count |-> r.streak_count,
                          ended_streaks |-> r.ended_streaks]
       /\ session_alerts' = Append(session_alerts, alert)
       /\ total_alerts' = total_alerts + 1
       /\ alert_types' = CountType(alert_types, alert_type)
       /\ log_lines' =
            IF ShouldEmit(r.should_log, r.is_new_streak)
            THEN (log_lines \o closing) \o <<AlertLine(alert_type, severity)>>
            ELSE log_lines \o closing

log_alert(alert_type, severity) == log_alert_metadata(alert_type, severity, <<>>)

\* ProctorLogger.__init__ and AlertTracker.__init__
InitLogger ==
    /\ active_streaks = <<>>
    /\ session_alerts = <<>>
    /\ total_alerts = 0
    /\ alert_types = <<>>
    /\ log_lines = <<>>
    /\ tracker_ret = [should_log |-> FALSE, is_new_streak |-> FALSE,
                      streak_count |-> 0, ended_streaks |-> <<>>]
    /\ log_calls = <<>>
    /\ runs = [t \in AlertTypes |-> [first |-> -1, last |-> -1, n |-> 0, started |-> 0]]

(***************************************************************************)
(* The publication step by step, and a reader of the alert file.           *)
(***************************************************************************)
AsVector(seq) == [i \in Kinds |-> seq[i + 1]]
NoRead == [done |-> FALSE, ok |-> TRUE, vec |-> <<>>]

\* After __init__: the writer is outside any call, no reader has the file
\* open, and the vector published so far is the initial one.
InitPublish ==
    /\ wpc = "idle"
    /\ wcall = [op |-> "none", time |-> 0, replaced |-> FALSE]
    /\ rfd = "none"
    /\ orphan = <<>>
    /\ read_result = NoRead
    /\ published = [vectors |-> {ZeroState}, overlapped |-> FALSE]

\* A step of the writer on the files, seen by a reader holding one open.
Overlap == [published EXCEPT !.overlapped = @ \/ rfd # "none"]

\* flush_if_needed up to the call of _write_state (pending and due).
PubFlushBegin ==
    /\ wpc = "idle"
    /\ pending_write
    /\ FlushDue(now)
    /\ wpc' = "open"
    /\ wcall' = [op |-> "flush_if_needed", time |-> now, replaced |-> FALSE]
    /\ UNCHANGED <<now, storeVars, files, notPublish, readerVars, published>>

\* force_write up to the call of _write_state.
PubForceBegin ==
    /\ wpc = "idle"
    /\ wpc' = "open"
    /\ wcall' = [op |-> "force_write", time |-> now, replaced |-> FALSE]
    /\ UNCHANGED <<now, storeVars, files, notPublish, readerVars, published>>

\* _write_state: open(temp_file, 'w') creates or truncates the file.
PubOpen ==
    /\ wpc = "open"
    /\ files' = FsOpenW(files, TempFile)
    /\ wpc' = "dump"
    /\ published' = Overlap
    /\ UNCHANGED <<now, storeVars, notPublish, wcall, readerVars>>

\* _write_state: json.dump fills the buffer of the file object; leaving the
\* with block flushes the whole document to the file and closes it.
PubDump ==
    /\ wpc = "dump"
    /\ files' = FsWrite(files, TempFile, Dump(alert_state))
    /\ wpc' = "replace"
    /\ published' = Overlap
    /\ UNCHANGED <<now, storeVars, notPublish, wcall, readerVars>>

\* _write_state: os.replace(temp_file, self.alert_file).  A reader that has
\* opened the replaced file keeps reading that file.
PubReplace ==
    /\ wpc = "replace"
    /\ files' = FsReplace(files, TempFile, AlertFile)
    /\ IF rfd = "alert" /\ TempFile # AlertFile
       THEN rfd' = "orphan" /\ orphan' = files[AlertFile]
       ELSE UNCHANGED <<rfd, orphan>>
    /\ wpc' = "return"
    /\ wcall' = [wcall EXCEPT !.replaced = TRUE]
    /\ published' = [vectors |-> published.vectors \cup {alert_state},
                     overlapped |-> published.overlapped \/ rfd # "none"]
    /\ UNCHANGED <<now, storeVars, notPublish, read_result>>

\* _write_state: any of the three steps raises; the exception is caught.
PubFail ==
    /\ wpc \in {"open", "dump", "replace"}
    /\ wpc' = "return"
    /\ UNCHANGED <<now, storeVars, files, notPublish, wcall, readerVars, published>>

\* flush_if_needed / force_write after _write_state has returned.
PubReturn ==
    /\ wpc = "return"
    /\ wpc' = "idle"
    /\ pending_write' = FALSE
    /\ last_write_time' = IF wcall.op = "flush_if_needed" THEN wcall.time ELSE now
    /\ ret' = (wcall.op = "flush_if_needed")
    /\ UNCHANGED <<now, alert_state, alert_cooldowns, files, notPublish, wcall,
                   readerVars, published>>

\* The pipeline changes the in-memory vector between two publications.
PubSetAlert ==
    /\ wpc = "idle"
    /\ \E index \in Kinds, detected \in BOOLEAN :
          /\ detected => Cardinality(Activated \cup {index}) <= MaxKinds
          /\ Setter(index, detected)
    /\ UNCHANGED <<now, last_write_time, files, notPublish, pubVars>>

\* The consumer opens the alert file.
ReaderOpen ==
    /\ rfd = "none"
    /\ files[AlertFile] # Absent
    /\ rfd' = "alert"
    /\ published' = [published EXCEPT !.overlapped = FALSE]
    /\ UNCHANGED <<now, storeVars, files, notPublish, writerVars, orphan, read_result>>

\* The consumer reads its open file to the end (one read of a document of
\* a few bytes), closes it and parses what it has read.
ReaderRead ==
    /\ rfd # "none"
    /\ LET content == IF rfd = "alert" THEN files[AlertFile] ELSE orphan
       IN read_result' = [done |-> TRUE, ok |-> Parse(content).ok, vec |-> Parse(content).vec]
    /\ rfd' = "none"
    /\ orphan' = <<>>
    /\ UNCHANGED <<now, storeVars, files, notPublish, writerVars, published>>

(***************************************************************************)
(* ProctorPipeline.process_frame, one step per stage of the frame.  The     *)
(* annotated image and the report list proctoring_results['alerts'] are    *)
(* outputs no stage reads back; the model keeps the counters, the alert    *)
(* store and the session logger.                                           *)
(***************************************************************************)
\* What a collaborator reports for one frame: it is disabled or was never
\* loaded ("off"), it raises, or it returns one of its results.
FaceOutcomes == {"off", "raise", "none", "one", "many"}
IdentityOutcomes == {"off", "raise", "match", "mismatch"}
GazeOutcomes == {"off", "raise", "calm", "risk"}
ObjectOutcomes == {"off", "raise", "clear", "phone"}

\* num_faces = len(face_meshes); face_meshes stays [] without a detection.
NumFaces(outcome) ==
    IF outcome = "one" THEN 1 ELSE IF outcome = "many" THEN 2 ELSE 0

NoFrame == [num_faces |-> 0, face |-> "-", identity |-> "-", gaze |-> "-", object |-> "-"]

\* The order of the stages of a processed frame.
NextStageFlushBeforeObject(stage, num_faces) ==
    CASE stage = "detect" -> "presence"
      [] stage = "presence" -> "presence_clear"
      [] stage = "presence_clear" -> IF num_faces = 1 THEN "identity" ELSE "flush"
      [] stage = "identity" -> "gaze"
      [] stage = "gaze" -> "flush"
      [] stage = "flush" -> "object"
      [] stage = "object" -> "return"
NextStageAlwaysVerifies(stage, num_faces) ==
    CASE stage = "detect" -> "presence"
      [] stage = "presence" -> "presence_clear"
      [] stage = "presence_clear" -> "identity"
      [] stage = "identity" -> "gaze"
      [] stage = "gaze" -> "object"
      [] stage = "object" -> "flush"
      [] stage = "flush" -> "return"
NextStageSkipsClear(stage, num_faces) ==
    CASE stage = "detect" -> "presence"
      [] stage = "presence" -> IF num_faces = 1 THEN "identity" ELSE "object"
      [] stage = "presence_clear" -> IF num_faces = 1 THEN "identity" ELSE "object"
      [] stage = "identity" -> "gaze"
      [] stage = "gaze" -> "object"
      [] stage = "object" -> "flush"
      [] stage = "flush" -> "return"
NextStage(stage, num_faces) ==
    CASE stage = "detect" -> "presence"
      [] stage = "presence" -> "presence_clear"
      [] stage = "presence_clear" -> IF num_faces = 1 THEN "identity" ELSE "object"
      [] stage = "identity" -> "gaze"
      [] stage = "gaze" -> "object"
      [] stage = "object" -> "flush"
      [] stage = "flush" -> "return"

Advance(stage) == fpc' = NextStage(stage, frame.num_faces)

\* The stages of the frame are over and the store is as the frame leaves it.
AfterFrame == fpc = "return"

\* A stage that calls a setter leaves the rest of the store alone.
SetOnly == UNCHANGED <<last_write_time, files>>
NoLog == UNCHANGED <<loggerVars, tracker_ret>>

\* ProctorPipeline.__init__
InitFrame ==
    /\ fpc = "idle"
    /\ frame = NoFrame
    /\ frame_counter = 0
    /\ frame_stats = [captured |-> 0, processed |-> 0, logged |-> 0]
    /\ frame_written = <<>>

\* if self.frame_counter <= self.frame_skip: the frame is passed through.
SkippedBelow(counter) == counter < frame_skip
Skipped(counter) == counter <= frame_skip

\* Entry of process_frame: the counters, and the decision to skip.
Admission ==
    /\ fpc = "idle"
    /\ IF Skipped(frame_counter + 1)
       THEN /\ frame_counter' = frame_counter + 1
            /\ frame_stats' = [frame_stats EXCEPT !.captured = @ + 1]
            /\ UNCHANGED <<fpc, frame>>
       ELSE /\ frame_counter' = 0
            /\ frame_stats' = [frame_stats EXCEPT !.captured = @ + 1,
                                                  !.processed = @ + 1,
                                                  !.logged = @ + 1]
            /\ fpc' = "detect"
            /\ frame' = NoFrame
    /\ UNCHANGED <<now, storeVars, files, loggerVars, tracker_ret, frame_written, notFrame>>

\* process_frame is called for each frame the camera loop has read.
FrameBegin ==
    /\ frame_stats.captured < MaxFrames
    /\ Admission

\* STEP 1: the face detector.
FrameDetect ==
    /\ fpc = "detect"
    /\ \E outcome \in FaceOutcomes :
          /\ frame' = [frame EXCEPT !.face = outcome, !.num_faces = NumFaces(outcome)]
          /\ fpc' = NextStage("detect", NumFaces(outcome))
          /\ IF outcome = "raise"
             THEN log_alert("detection_error", "critical")
             ELSE NoLog
    /\ UNCHANGED <<now, storeVars, files, frame_counter, frame_stats, frame_written, notFrame>>

\* STEP 2: the alert logged for the face count and the first setter call.
FramePresence ==
    /\ fpc = "presence"
    /\ Advance("presence")
    /\ IF frame.num_faces > 1
       THEN log_alert_metadata("multiple_faces", "warning", <<frame.num_faces>>)
              /\ set_multiple_faces(TRUE)
       ELSE IF frame.num_faces = 0
       THEN log_alert("no_face", "warning") /\ set_no_face(TRUE)
       ELSE NoLog /\ set_no_face(FALSE)
    /\ SetOnly
    /\ UNCHANGED <<now, frame, frame_counter, frame_stats, frame_written, notFrame>>

\* STEP 2: the second setter call, clearing the opposite alert.
FramePresenceClear ==
    /\ fpc = "presence_clear"
    /\ Advance("presence_clear")
    /\ IF frame.num_faces > 1
       THEN set_no_face(FALSE)
       ELSE set_multiple_faces(FALSE)
    /\ SetOnly
    /\ NoLog
    /\ UNCHANGED <<now, frame, frame_counter, frame_stats, frame_written, notFrame>>

\* _verify_face_sequential: if not result.get('matched'), for a result the
\* matcher returned; what it raises is caught before that test.
MismatchOrError(outcome) == outcome \in {"mismatch", "raise"}
Mismatch(outcome) == outcome = "mismatch"

\* STEP 3: _verify_face_sequential, which catches what the matcher raises.
FrameIdentity ==
    /\ fpc = "identity"
    /\ Advance("identity")
    /\ \E outcome \in IdentityOutcomes :
          /\ frame' = [frame EXCEPT !.identity = outcome]
          /\ CASE Mismatch(outcome) ->
                    log_alert("face_mismatch", "warning") /\ set_face_mismatch(TRUE) /\ SetOnly
               [] outcome = "match" ->
                    NoLog /\ set_face_mismatch(FALSE) /\ SetOnly
               [] OTHER ->
                    NoLog /\ UNCHANGED <<storeVars, files>>
    /\ UNCHANGED <<now, frame_counter, frame_stats, frame_written, notFrame>>

\* STEP 4: the eye detector.
FrameGaze ==
    /\ fpc = "gaze"
    /\ Advance("gaze")
    /\ \E outcome \in GazeOutcomes :
          /\ frame' = [frame EXCEPT !.gaze = outcome]
          /\ CASE outcome = "raise" ->
                    log_alert("eye_detection_error", "info") /\ UNCHANGED <<storeVars, files>>
               [] outcome = "off" ->
                    NoLog /\ set_eye_movement(FALSE) /\ SetOnly
               [] OTHER ->
                    NoLog /\ set_eye_movement(outcome = "risk") /\ SetOnly
    /\ UNCHANGED <<now, frame_counter, frame_stats, frame_written, notFrame>>

\* STEP 5: the phone detector.
FrameObject ==
    /\ fpc = "object"
    /\ Advance("object")
    /\ \E outcome \in ObjectOutcomes :
          /\ frame' = [frame EXCEPT !.object = outcome]
          /\ CASE outcome = "raise" ->
                    log_alert("phone_detection_error", "info") /\ UNCHANGED <<storeVars, files>>
               [] outcome = "phone" ->
                    log_alert("cheating_phone_detected", "critical")
                      /\ set_phone_detected(TRUE) /\ SetOnly
               [] OTHER ->
                    NoLog /\ set_phone_detected(FALSE) /\ SetOnly
    /\ UNCHANGED <<now, frame_counter, frame_stats, frame_written, notFrame>>

\* self.alert_comm.flush_if_needed(), with the vector it wrote if it did.
FrameFlush ==
    /\ fpc = "flush"
    /\ Advance("flush")
    /\ \E outcome \in WriteOutcomes :
          /\ flush_if_needed(outcome)
          /\ frame_written' = IF ret' /\ outcome = "ok" THEN <<alert_state>> ELSE <<>>
    /\ NoLog
    /\ UNCHANGED <<now, alert_state, alert_cooldowns, frame, frame_counter, frame_stats, notFrame>>

\* return annotated_frame
FrameReturn ==
    /\ fpc = "return"
    /\ fpc' = "idle"
    /\ frame_written' = <<>>
    /\ NoLog
    /\ UNCHANGED <<now, storeVars, files, frame, frame_counter, frame_stats, notFrame>>

\* Time passes, between frames and between the stages of one.
FrameTick ==
    /\ now < StartTime + FrameHorizon
    /\ now' = now + 1
    /\ UNCHANGED <<storeVars, files, logVars, frameVars, notFrame>>

(***************************************************************************)
(* ProctorLogger.close / save_session / get_session_summary and the steps  *)
(* of ProctorPipeline.cleanup that reach them.  None is the empty          *)
(* sequence, a value that is set a one-element sequence.                   *)
(***************************************************************************)
\* What save_session leaves on disk: the document json.dump wrote.
SummaryDoc(t) ==
    [end_time |-> t, total_frames |-> frame_stats.logged,
     total_alerts |-> total_alerts, alert_types |-> alert_types,
     alerts |-> Len(session_alerts), complete |-> TRUE]

\* Outcomes of the write in save_session: it succeeds, open() raises, or
\* json.dump raises after open(..., 'w') has truncated the file.
SaveOutcomes == {"ok", "fail_open", "fail_dump"}

\* save_session: end_time is assigned before the try block.
save_session(outcome) ==
    /\ end_time' = <<now>>
    /\ alerts_file' =
         CASE outcome = "ok" -> <<SummaryDoc(now)>>
           [] outcome = "fail_dump" -> <<[SummaryDoc(now) EXCEPT !.complete = FALSE]>>
           [] OTHER -> alerts_file

\* AlertTracker.get_all_active_streaks: one record per active streak.
FinalRecord(streak) ==
    [alert_type |-> streak.alert_type,
     duration |-> streak.last_ts - streak.start_ts,
     count |-> streak.count,
     last_ts |-> streak.last_ts]
get_all_active_streaksNone(streaks) == <<>>
get_all_active_streaks(streaks) ==
    [i \in 1..Len(streaks) |-> FinalRecord(streaks[i])]

\* What close() leaves in the tracker: it only reads the active streaks.
StreaksAfterClose(streaks) == streaks

\* ProctorLogger.close: the closing lines, save_session, handlers removed.
close(outcome) ==
    LET active == get_all_active_streaks(active_streaks)
        closing == [i \in 1..Len(active) |-> EndedLine(active[i])]
    IN /\ log_lines' = IF handlers THEN log_lines \o closing ELSE log_lines
       /\ active_streaks' = StreaksAfterClose(active_streaks)
       /\ save_session(outcome)
       /\ handlers' = FALSE
       /\ UNCHANGED <<session_alerts, total_alerts, alert_types, tracker_ret>>

\* The dict under 'alert_types' of a returned summary is the logger's own
\* statistics dict, not a copy of it.
ReturnedAlertTypes(at_return) == alert_types

\* get_session_summary: the returned dict (the counters by value).
get_session_summary ==
    summary' = [taken |-> TRUE,
                total_frames |-> frame_stats.logged,
                total_alerts |-> total_alerts,
                alert_types_at_return |-> alert_types]

\* The returned summary as its holder reads it now.
SummaryNow ==
    [total_frames |-> summary.total_frames,
     total_alerts |-> summary.total_alerts,
     alert_types |-> ReturnedAlertTypes(summary.alert_types_at_return)]
SummaryAtReturn ==
    [total_frames |-> summary.total_frames,
     total_alerts |-> summary.total_alerts,
     alert_types |-> summary.alert_types_at_return]

\* ProctorLogger.__init__ (session part) and the pipeline before teardown.
InitSession ==
    /\ end_time = <<>>
    /\ alerts_file = <<>>
    /\ handlers = TRUE
    /\ summary = [taken |-> FALSE, total_frames |-> 0, total_alerts |-> 0,
                  alert_types_at_return |-> <<>>]
    /\ cpc = "idle"
    /\ session_hist = [entries |-> <<>>, closes |-> 0, end_sets |-> 0, saves |-> 0,
                       steps |-> <<>>]

\* cleanup() is entered from the finally block of run() or from stop().
CleanupBegin(entry) ==
    /\ cpc = "idle"
    /\ fpc = "idle"
    /\ Len(session_hist.entries) < MaxTeardowns
    /\ entry = "run" => \A i \in 1..Len(session_hist.entries) : session_hist.entries[i] # "run"
    /\ cpc' = "logger"
    /\ session_hist' = [session_hist EXCEPT !.entries = Append(@, entry)]
    /\ UNCHANGED <<now, storeVars, files, logVars, end_time, alerts_file, handlers, summary,
                   notSession>>

\* cleanup: get_session_summary() and session_logger.close().
CleanupLogger ==
    /\ cpc = "logger"
    /\ cpc' = "alerts"
    /\ get_session_summary
    /\ \E outcome \in SaveOutcomes :
          /\ close(outcome)
          /\ session_hist' = [session_hist EXCEPT
                                !.closes = @ + 1,
                                !.end_sets = @ + 1,
                                !.saves = @ + (IF outcome = "ok" THEN 1 ELSE 0)]
    /\ UNCHANGED <<now, storeVars, files, log_calls, runs, notSession>>

\* cleanup: alert_comm.clear_all_alerts()
CleanupClear ==
    /\ cpc = "alerts"
    /\ cpc' = "write"
    /\ clear_all_alerts
    /\ UNCHANGED <<now, alert_cooldowns, last_write_time, files, logVars,
                   end_time, alerts_file, handlers, summary, session_hist, notSession>>

\* cleanup: alert_comm.force_write()
CleanupWrite ==
    /\ cpc = "write"
    /\ cpc' = "release"
    /\ \E outcome \in WriteOutcomes : force_write(outcome)
    /\ UNCHANGED <<now, alert_state, alert_cooldowns, logVars,
                   end_time, alerts_file, handlers, summary, session_hist, notSession>>

\* cleanup: the detectors' cleanup and CameraPipeline.cleanup (camera, display).
CleanupRelease ==
    /\ cpc = "release"
    /\ cpc' = "idle"
    /\ UNCHANGED <<now, storeVars, files, logVars,
                   end_time, alerts_file, handlers, summary, session_hist, notSession>>

\* A caller asks for the summary during the session.
SessionSummary ==
    /\ cpc = "idle"
    /\ get_session_summary
    /\ UNCHANGED <<now, storeVars, files, logVars,
                   end_time, alerts_file, handlers, cpc, session_hist, notSession>>

\* log_alert as the frame loop calls it, before the teardown.
SessionLogAlert ==
    /\ session_hist.entries = <<>>
    /\ Len(session_alerts) < MaxSessionCalls
    /\ \E alert_type \in AlertTypes : log_alert(alert_type, SeverityOf(alert_type))
    /\ UNCHANGED <<now, storeVars, files, log_calls, runs, sessionVars, notSession>>

SessionTick ==
    /\ now < StartTime + SessionHorizon
    /\ now' = now + 1
    /\ UNCHANGED <<storeVars, files, logVars, sessionVars, notSession>>

(***************************************************************************)
(* CameraPipeline.run: initialize, the capture loop and its finally block, *)
(* with the teardown steps above and the frame steps of process_frame.     *)
(***************************************************************************)
\* Before run(): the camera is not opened and no detector is loaded yet.
InitRun ==
    /\ rpc = "start"
    /\ camera = "closed"
    /\ detectors = <<>>
    /\ run_hist = [reads |-> 0, init |-> "none", stopped |-> "none"]

\* initialize(): camera.start() and display.create_window() may fail;
\* run() then logs and returns.
InitializeOutcomes == {"ok", "camera_failed", "display_failed"}
AfterInitialize(outcome) == IF outcome = "ok" THEN "top" ELSE "returned"
RunInitialize ==
    /\ rpc = "start"
    /\ \E outcome \in InitializeOutcomes :
          /\ rpc' = AfterInitialize(outcome)
          /\ camera' = IF outcome = "ok" THEN "ok" ELSE "closed"
          /\ run_hist' = [run_hist EXCEPT !.init = outcome]
    /\ UNCHANGED <<now, storeVars, files, histVars, logVars, pubVars, frameVars,
                   sessionVars, bufferVars, lockVars, detectors>>

\* The device stops delivering frames: from now on capture.read() fails.
CameraDies ==
    /\ camera = "ok"
    /\ rpc \in {"top", "failed", "call"}
    /\ camera' = "dead"
    /\ UNCHANGED <<now, storeVars, files, histVars, logVars, pubVars, frameVars,
                   sessionVars, bufferVars, lockVars, rpc, detectors, run_hist>>

\* What the loop does after a failed read: logging.warning(...); continue
AfterFailedRead == "failed"

\* success, frame = self.camera.read_frame(): a live camera may miss a
\* frame, a dead one misses every frame.
RunRead ==
    /\ rpc = "top"
    /\ \E success \in BOOLEAN :
          /\ success => camera = "ok" /\ run_hist.reads < MaxFrames
          /\ rpc' = IF success THEN "call" ELSE AfterFailedRead
          /\ run_hist' = IF success THEN [run_hist EXCEPT !.reads = @ + 1] ELSE run_hist
    /\ UNCHANGED <<now, storeVars, files, histVars, logVars, pubVars, frameVars,
                   sessionVars, bufferVars, lockVars, camera, detectors>>

\* continue: back to the test of the while loop.
RunContinue ==
    /\ rpc = "failed"
    /\ rpc' = "top"
    /\ UNCHANGED <<now, storeVars, files, histVars, logVars, pubVars, frameVars,
                   sessionVars, bufferVars, lockVars, camera, detectors, run_hist>>

\* process_frame is entered once for every frame read.
FrameDue == rpc = "call" /\ frame_stats.captured < run_hist.reads
FrameDone == rpc = "call" /\ fpc = "idle" /\ frame_stats.captured = run_hist.reads

\* The frame is shown; the exit key breaks the loop.
RunShow ==
    /\ FrameDone
    /\ \E exit_key \in BOOLEAN :
          /\ rpc' = IF exit_key THEN "finally" ELSE "top"
          /\ run_hist' = IF exit_key THEN [run_hist EXCEPT !.stopped = "exit_key"] ELSE run_hist
    /\ UNCHANGED <<now, storeVars, files, histVars, logVars, pubVars, frameVars,
                   sessionVars, bufferVars, lockVars, camera, detectors>>

\* except KeyboardInterrupt / except Exception: the loop is left wherever
\* it stands, process_frame included, and the finally block runs.
RunAbort(reason) ==
    /\ rpc \in {"top", "failed", "call"}
    /\ reason = "exception" => rpc = "call"
    /\ rpc' = "finally"
    /\ fpc' = "idle"
    /\ frame_written' = <<>>
    /\ run_hist' = [run_hist EXCEPT !.stopped = reason]
    /\ UNCHANGED <<now, storeVars, files, histVars, logVars, pubVars, frame, frame_counter,
                   frame_stats, sessionVars, bufferVars, lockVars, camera, detectors>>

\* finally: self.cleanup()
RunFinally ==
    /\ rpc = "finally"
    /\ session_hist.entries = <<>>
    /\ CleanupBegin("run")

\* run() returns when cleanup() has.
RunReturn ==
    /\ rpc = "finally"
    /\ cpc = "idle"
    /\ session_hist.entries # <<>>
    /\ rpc' = "returned"
    /\ UNCHANGED <<now, storeVars, files, histVars, logVars, pubVars, frameVars,
                   sessionVars, bufferVars, lockVars, camera, detectors, run_hist>>

(***************************************************************************)
(* SharedFrameBuffer: the memory-mapped frame file, written by write_frame *)
(* and read by read_frame / read_frame_info through another mapping.       *)
(***************************************************************************)
\* [4 bytes: channels (3 for BGR)]
BGR == 3

\* An OpenCV frame: shape (height, width, channels) and its uint8 bytes.
\* The pixels of a frame follow one of a few patterns.
Patterns == {"ones", "twos", "stripes"}
Pixel(pattern, i) ==
    IF pattern = "ones" THEN 1
    ELSE IF pattern = "twos" THEN 2
    ELSE 1 + (i % 2)
Image(width, height, channels, pattern) ==
    [width |-> width, height |-> height, channels |-> channels,
     bytes |-> [i \in 1..(width * height * channels) |-> Pixel(pattern, i)]]
Images ==
    {Image(w, h, BGR, p) : w \in 1..MaxDim, h \in 1..MaxDim, p \in Patterns}
NoImage == [width |-> 0, height |-> 0, channels |-> 0, bytes |-> <<>>]

\* frame.size and frame.tobytes()
Size(image) == image.height * image.width * image.channels
ToBytes(image) == image.bytes

\* struct.pack('6I', width, height, channels, timestamp_sec, timestamp_usec,
\* frame_size): the header as the fields unpacked from it.
Header(width, height, channels, timestamp_sec, frame_size) ==
    [width |-> width, height |-> height, channels |-> channels,
     timestamp_sec |-> timestamp_sec, frame_size |-> frame_size]
ZeroHeader == Header(0, 0, 0, 0, 0)

\* write_frame: if frame_size > self.MAX_FRAME_SIZE
TooLargeNever(frame_size) == FALSE
TooLarge(frame_size) == frame_size > MAX_FRAME_SIZE

\* mmap.write at the position after the header: the bytes must fit.
Fits(bytes) == Len(bytes) <= MAX_FRAME_SIZE
WritePayload(data, bytes) ==
    [i \in 1..MAX_FRAME_SIZE |-> IF i <= Len(bytes) THEN bytes[i] ELSE data[i]]

\* mmap.read(frame_size) at the position after the header.
ReadPayloadWhole(data, frame_size) == data
ReadPayload(data, frame_size) ==
    [i \in 1..(IF frame_size <= MAX_FRAME_SIZE THEN frame_size ELSE MAX_FRAME_SIZE) |-> data[i]]

\* np.frombuffer(...).reshape((height, width, channels)) raises unless the
\* number of bytes is height * width * channels.
Reshapes(bytes, header) == Len(bytes) = header.height * header.width * header.channels

BufIdle == [pc |-> "idle", frame |-> NoImage, ret |-> FALSE]
ReadIdle ==
    [pc |-> "idle", header |-> ZeroHeader, frame |-> NoImage, done |-> "none", clean |-> TRUE]

\* _create_buffer: the file filled with zeros, the header zeroed.
InitBuffer ==
    /\ shm = [header |-> ZeroHeader, data |-> [i \in 1..MAX_FRAME_SIZE |-> 0]]
    /\ bw = BufIdle
    /\ br = ReadIdle
    /\ buf_hist = [last_ok |-> NoImage, rejected |-> FALSE, candidates |-> {}]

\* A step of the writer on the mapping, seen by a reader inside read_frame.
Disturbed == [br EXCEPT !.clean = @ /\ br.pc = "idle"]

\* write_frame up to the size check.
BufWriteBegin ==
    /\ bw.pc = "idle"
    /\ \E image \in Images :
          IF TooLarge(Size(image))
          THEN /\ bw' = [pc |-> "idle", frame |-> NoImage, ret |-> FALSE]
               /\ buf_hist' = [buf_hist EXCEPT !.rejected = TRUE]
          ELSE /\ bw' = [pc |-> "header", frame |-> image, ret |-> FALSE]
               /\ buf_hist' = [buf_hist EXCEPT
                                !.rejected = FALSE,
                                !.candidates = IF br.pc = "idle" THEN @ ELSE @ \cup {image}]
    /\ UNCHANGED <<now, shm, br, notBuffer>>

\* self.mmap_file.seek(0); self.mmap_file.write(header)
BufWriteHeader ==
    /\ bw.pc = "header"
    /\ shm' = [shm EXCEPT !.header =
                 Header(bw.frame.width, bw.frame.height, bw.frame.channels, now,
                        Size(bw.frame))]
    /\ bw' = [bw EXCEPT !.pc = "payload"]
    /\ br' = Disturbed
    /\ UNCHANGED <<now, buf_hist, notBuffer>>

\* self.mmap_file.write(frame.tobytes()); a ValueError is caught and the
\* call returns False.
BufWritePayload ==
    /\ bw.pc = "payload"
    /\ IF Fits(ToBytes(bw.frame))
       THEN /\ shm' = [shm EXCEPT !.data = WritePayload(@, ToBytes(bw.frame))]
            /\ bw' = [bw EXCEPT !.pc = "flush"]
            /\ br' = Disturbed
       ELSE /\ bw' = [pc |-> "idle", frame |-> NoImage, ret |-> FALSE]
            /\ UNCHANGED <<shm, br>>
    /\ UNCHANGED <<now, buf_hist, notBuffer>>

\* self.mmap_file.flush(); return True
BufWriteFlush ==
    /\ bw.pc = "flush"
    /\ bw' = [pc |-> "idle", frame |-> NoImage, ret |-> TRUE]
    /\ buf_hist' = [buf_hist EXCEPT !.last_ok = bw.frame]
    /\ UNCHANGED <<now, shm, br, notBuffer>>

\* History at the start of a read: the frame a read may return is the last
\* one written or one whose write is under way.
ReadBegins ==
    [buf_hist EXCEPT !.candidates = {buf_hist.last_ok} \cup
                                    (IF bw.pc = "idle" THEN {} ELSE {bw.frame})]

\* read_frame: the header is read and checked.
BufReadHeader ==
    /\ br.pc = "idle"
    /\ LET h == shm.header
       IN IF h.width = 0 \/ h.height = 0 \/ h.frame_size = 0
          THEN /\ br' = [ReadIdle EXCEPT !.header = h, !.done = "None",
                                         !.clean = (bw.pc = "idle")]
               /\ UNCHANGED buf_hist
          ELSE /\ br' = [ReadIdle EXCEPT !.pc = "payload", !.header = h,
                                         !.clean = (bw.pc = "idle")]
               /\ buf_hist' = ReadBegins
    /\ UNCHANGED <<now, shm, bw, notBuffer>>

\* read_frame: the payload is read and reshaped.
BufReadPayload ==
    /\ br.pc = "payload"
    /\ LET frame_data == ReadPayload(shm.data, br.header.frame_size)
       IN IF Reshapes(frame_data, br.header)
          THEN br' = [br EXCEPT !.pc = "idle", !.done = "frame",
                                !.frame = [width |-> br.header.width,
                                           height |-> br.header.height,
                                           channels |-> br.header.channels,
                                           bytes |-> frame_data]]
          ELSE br' = [br EXCEPT !.pc = "idle", !.done = "None"]
    /\ buf_hist' = [buf_hist EXCEPT !.candidates = {}]
    /\ UNCHANGED <<now, shm, bw, notBuffer>>

\* read_frame_info: the header alone.
BufReadInfo ==
    /\ br.pc = "idle"
    /\ LET h == shm.header
       IN IF h.width = 0 \/ h.height = 0
          THEN br' = [ReadIdle EXCEPT !.done = "None", !.clean = (bw.pc = "idle")]
          ELSE br' = [ReadIdle EXCEPT !.done = "info", !.header = h,
                                      !.clean = (bw.pc = "idle")]
    /\ UNCHANGED <<now, shm, bw, buf_hist, notBuffer>>

(***************************************************************************)
(* Specification Spec: the in-memory alert store under any sequence of     *)
(* set_*, clear_alert and clear_all_alerts calls at any times.             *)
(***************************************************************************)
NoCall == [op |-> "init", index |-> 0, value |-> 0, write |-> "none"]
Called(op, index, value, w) ==
    call' = [op |-> op, index |-> index, value |-> value, write |-> w]

Shorter(a, b) == IF a < b THEN a ELSE b

CallSetAlert(index, detected) ==
    /\ detected => Cardinality(Activated \cup {index}) <= MaxKinds
    /\ Setter(index, detected)
    /\ Called("set_alert", index, Normalize(detected), "none")
    /\ last_honoured' =
         IF ret' /\ detected THEN [last_honoured EXCEPT ![index] = now]
         ELSE last_honoured
    /\ last_request' =
         IF detected /\ ~Forced(index) THEN [last_request EXCEPT ![index] = now]
         ELSE last_request
    /\ rapid' = (ret' /\ detected /\ last_honoured[index] >= 0
                    /\ now - last_honoured[index] < cooldown_duration)
    /\ gap' =
         IF alert_state[index] = 0 /\ alert_state'[index] = 1 /\ last_honoured[index] >= 0
         THEN Shorter(now - last_honoured[index], cooldown_duration)
         ELSE -1
    /\ UNCHANGED <<now, last_write_time, files>>
    /\ UNCHANGED notStore

StoreSetAlert == \E index \in Kinds, detected \in BOOLEAN : CallSetAlert(index, detected)

StoreClearAlert ==
    \E index \in Kinds :
        /\ clear_alert(index)
        /\ Called("clear_alert", index, 0, "none")
        /\ rapid' = FALSE /\ gap' = -1
        /\ UNCHANGED <<now, alert_cooldowns, last_write_time, files, last_honoured, last_request>>
        /\ UNCHANGED notStore

StoreClearAll ==
    /\ clear_all_alerts
    /\ Called("clear_all_alerts", 0, 0, "none")
    /\ rapid' = FALSE /\ gap' = -1
    /\ UNCHANGED <<now, alert_cooldowns, last_write_time, files, last_honoured, last_request>>
    /\ UNCHANGED notStore

\* time.time() moves on between two calls.
Tick ==
    /\ now < MaxTime
    /\ now' = now + 1
    /\ UNCHANGED <<storeVars, files, histVars, notStore>>

\* ProctorLogger.__init__: self.lock = threading.Lock(); no thread is inside
\* log_alert.
NoLogCall == [pc |-> "idle", spc |-> "idle", alert_type |-> "-", severity |-> "-",
              should_log |-> FALSE, is_new_streak |-> FALSE, streak_count |-> 0,
              lined |-> 0, lined_of |-> [t \in AlertTypes |-> 0]]
InitLock ==
    /\ lock = "free"
    /\ lpc = NoLogCall

InitHist ==
    /\ call = NoCall
    /\ last_honoured = [i \in Kinds |-> -1]
    /\ last_request = [i \in Kinds |-> -1]
    /\ rapid = FALSE
    /\ gap = -1

Init ==
    /\ now = StartTime
    /\ InitStore
    /\ InitHist
    /\ InitLogger
    /\ InitPublish
    /\ InitFrame
    /\ InitSession
    /\ InitBuffer
    /\ InitRun
    /\ InitLock

Next ==
    \/ StoreSetAlert
    \/ StoreClearAlert
    \/ StoreClearAll
    \/ Tick

Spec == Init /\ [][Next]_vars

(***************************************************************************)
(* Claims about the cooldown (checked under Spec).                         *)
(***************************************************************************)
Unforced == Kinds \ {ALERT_PHONE}
LastCallWas(op, index, value) ==
    /\ call.op = op
    /\ call.index = index
    /\ call.value = value

\* C1 as stated: for every unforced index, a set_alert(index, 1) call made
\* less than cooldown_duration after the previous set_alert(index, 1) call
\* returns False and leaves alert_cooldowns[index] unchanged.
C1_SecondRequestRejected ==
    [][\A i \in Unforced :
          (/\ CallSetAlert(i, TRUE)
           /\ last_request[i] >= 0
           /\ now - last_request[i] < cooldown_duration)
          => (ret' = FALSE /\ alert_cooldowns'[i] = alert_cooldowns[i])]_vars

\* C1 amended: for every unforced index, a set_alert(index, 1) call made
\* less than cooldown_duration after a set_alert(index, 1) call that was
\* honoured (returned True) returns False and leaves alert_cooldowns[index]
\* unchanged.
C1_RejectedAfterHonoured ==
    [][\A i \in Unforced :
          (/\ CallSetAlert(i, TRUE)
           /\ last_honoured[i] >= 0
           /\ now - last_honoured[i] < cooldown_duration)
          => (ret' = FALSE /\ alert_cooldowns'[i] = alert_cooldowns[i])]_vars

\* An activation request on a cleared slot was rejected inside the window
\* opened by an honoured activation.
C1_Witness ==
    \E i \in Unforced :
        /\ LastCallWas("set_alert", i, 1)
        /\ ret = FALSE
        /\ alert_state[i] = 0
        /\ last_request[i] = now
        /\ last_honoured[i] >= 0
        /\ 0 < now - last_honoured[i]
        /\ now - last_honoured[i] < cooldown_duration

\* C2: for every index, set_alert(index, 0) on a slot that is 1 sets the
\* slot to 0, returns True and marks the store dirty, whatever the time
\* since the slot's activation.
C2_DeactivationNeverSuppressed ==
    [][\A i \in Kinds :
          (CallSetAlert(i, FALSE) /\ alert_state[i] = 1)
          => (alert_state'[i] = 0 /\ ret' = TRUE /\ pending_write' = TRUE)]_vars

\* An unforced slot was deactivated inside its cooldown window.
C2_Witness ==
    \E i \in Unforced :
        /\ LastCallWas("set_alert", i, 0)
        /\ ret = TRUE
        /\ alert_state[i] = 0
        /\ pending_write
        /\ now - alert_cooldowns[i] < cooldown_duration

Rises(i) == alert_state[i] = 0 /\ alert_state'[i] = 1

\* C28: for every unforced index, over any sequence of set_alert, clear_alert
\* and clear_all_alerts calls, two consecutive 0-to-1 transitions of the slot
\* are at least cooldown_duration apart: an activation requested less than
\* cooldown_duration after the slot's previous 0-to-1 transition returns False
\* and changes nothing in the store, whether or not the slot was deactivated
\* or cleared in between.
C28_ActivationsCooldownApart ==
    /\ []((call.index \in Unforced /\ gap >= 0) => gap >= cooldown_duration)
    /\ [][\A i \in Unforced :
            /\ (Rises(i) /\ last_honoured[i] >= 0)
               => now - last_honoured[i] >= cooldown_duration
            /\ (/\ CallSetAlert(i, TRUE)
                /\ last_honoured[i] >= 0
                /\ now - last_honoured[i] < cooldown_duration)
               => (/\ ret' = FALSE
                   /\ UNCHANGED <<alert_state, alert_cooldowns, pending_write>>)]_vars

\* An unforced slot that was cleared after its first activation has just
\* been activated for the second time.
C28_Witness ==
    \E i \in Unforced :
        /\ LastCallWas("set_alert", i, 1)
        /\ ret = TRUE
        /\ alert_state[i] = 1
        /\ last_honoured[i] = now
        /\ gap = cooldown_duration

(***************************************************************************)
(* Specification SpecFlush: the store with its publication to the alert    *)
(* file; a write may fail at open()/json.dump or at os.replace.            *)
(***************************************************************************)
FlushSetAlert ==
    \E index \in Kinds, detected \in BOOLEAN :
        /\ detected => Cardinality(Activated \cup {index}) <= MaxKinds
        /\ Setter(index, detected)
        /\ Called("set_alert", 0, 0, "none")
        /\ rapid' = FALSE /\ gap' = -1
        /\ UNCHANGED <<now, last_write_time, files, last_honoured, last_request>>
        /\ UNCHANGED notStore

FlushClearAll ==
    /\ clear_all_alerts
    /\ Called("clear_all_alerts", 0, 0, "none")
    /\ rapid' = FALSE /\ gap' = -1
    /\ UNCHANGED <<now, alert_cooldowns, last_write_time, files, last_honoured, last_request>>
    /\ UNCHANGED notStore

\* The write flush_if_needed makes, if it makes one.
Attempt(outcome) == IF pending_write /\ FlushDue(now) THEN outcome ELSE "none"

FlushIfNeeded ==
    \E outcome \in WriteOutcomes :
        /\ flush_if_needed(outcome)
        /\ Called("flush_if_needed", 0, 0, Attempt(outcome))
        /\ rapid' = FALSE /\ gap' = -1
        /\ UNCHANGED <<now, alert_state, alert_cooldowns, last_honoured, last_request>>
        /\ UNCHANGED notStore

ForceWrite ==
    \E outcome \in WriteOutcomes :
        /\ force_write(outcome)
        /\ Called("force_write", 0, 0, outcome)
        /\ rapid' = FALSE /\ gap' = -1
        /\ UNCHANGED <<now, alert_state, alert_cooldowns, last_honoured, last_request>>
        /\ UNCHANGED notStore

NextFlush ==
    \/ FlushSetAlert
    \/ FlushClearAll
    \/ FlushIfNeeded
    \/ ForceWrite
    \/ Tick

SpecFlush == Init /\ [][NextFlush]_vars

(***************************************************************************)
(* Claims about the publication (checked under SpecFlush).                 *)
(***************************************************************************)
\* C4: flush_if_needed writes the alert file if and only if pending_write
\* is set and write_interval has elapsed since last_write_time; when it
\* writes, the file holds the in-memory vector, pending_write is cleared,
\* last_write_time is the time of the call and it returns True; otherwise
\* it returns False and leaves the file, pending_write and last_write_time
\* unchanged.
C4_FlushContract ==
    [][FlushIfNeeded
       => IF pending_write /\ now - last_write_time >= write_interval
          THEN /\ files'[AlertFile] = Dump(alert_state)
               /\ pending_write' = FALSE
               /\ last_write_time' = now
               /\ ret' = TRUE
          ELSE /\ ret' = FALSE
               /\ files' = files
               /\ pending_write' = pending_write
               /\ last_write_time' = last_write_time]_vars

\* C5: when the write made by flush_if_needed fails, the store is still
\* dirty afterwards, so that the next due flush_if_needed writes again.
C5_FailedWriteStaysDirty ==
    [][(FlushIfNeeded /\ call'.write \in {"fail_open", "fail_replace"})
       => pending_write' = TRUE]_vars

(***************************************************************************)
(* Specification SpecLogger: a logging session, log_alert called with any  *)
(* alert type at any (non-decreasing) time.                                *)
(***************************************************************************)
\* The run of events of one alert type in which no gap exceeds the timeout,
\* kept from the times of the calls alone.
RunAfter(run, current_time) ==
    IF run.last >= 0 /\ current_time - run.last <= streak_timeout
    THEN [run EXCEPT !.last = current_time, !.n = @ + 1]
    ELSE [first |-> current_time, last |-> current_time, n |-> 1,
          started |-> run.started + 1]

CallLogAlert(alert_type) ==
    /\ Len(log_calls) < MaxLogCalls
    /\ log_alert(alert_type, SeverityOf(alert_type))
    /\ log_calls' = Append(log_calls, alert_type)
    /\ runs' = [runs EXCEPT ![alert_type] = RunAfter(@, now)]
    /\ UNCHANGED <<now, notLogger>>

LogAlert == \E alert_type \in AlertTypes : CallLogAlert(alert_type)

LogTick ==
    /\ now < StartTime + LogHorizon
    /\ now' = now + 1
    /\ UNCHANGED <<notLogger, logVars>>

NextLogger ==
    \/ LogAlert
    \/ LogTick

SpecLogger == Init /\ [][NextLogger]_vars

(***************************************************************************)
(* Claims about the streak tracker and the session logger (SpecLogger).    *)
(***************************************************************************)
Occurrences(seq, x) == Cardinality({i \in 1..Len(seq) : seq[i] = x})
EndedFor(ended, alert_type) ==
    {i \in 1..Len(ended) : ended[i].alert_type = alert_type}
CountOf(alert_type) ==
    IF alert_type \in DOMAIN alert_types THEN alert_types[alert_type] ELSE 0
RECURSIVE SumOver(_, _)
SumOver(counts, keys) ==
    IF keys = {} THEN 0
    ELSE LET k == CHOOSE x \in keys : TRUE
         IN counts[k] + SumOver(counts, keys \ {k})
AlertLinesOf(alert_type) ==
    Cardinality({i \in 1..Len(log_lines) :
                    log_lines[i].kind = "alert" /\ log_lines[i].alert_type = alert_type})

C9_StatisticsCountEveryCall ==
    /\ total_alerts = Len(log_calls)
    /\ Len(session_alerts) = Len(log_calls)
    /\ SumOver(alert_types, DOMAIN alert_types) = Len(log_calls)
    /\ \A K \in AlertTypes : CountOf(K) = Occurrences(log_calls, K)
    /\ \A i \in 1..Len(log_calls) : session_alerts[i].type = log_calls[i]

\* Several calls were counted for which no line was written.
C9_Witness ==
    /\ total_alerts = MaxLogCalls
    /\ Cardinality(DOMAIN alert_types) >= 2
    /\ \E K \in DOMAIN alert_types : alert_types[K] > AlertLinesOf(K)
    /\ ~tracker_ret.is_new_streak

\* C10: log_alert appends one closing line per streak in the ended_streaks
\* of the call, then the alert line exactly when the call is a new streak;
\* so the alert lines of a kind number the streaks started for that kind.
C10_LinesFollowStreaks ==
    [][\A K \in AlertTypes :
          CallLogAlert(K) =>
            LET r == tracker_ret'
                n == Len(r.ended_streaks)
                m == Len(log_lines)
                added == Len(log_lines') - m
            IN /\ added = n + (IF r.is_new_streak THEN 1 ELSE 0)
               /\ SubSeq(log_lines', 1, m) = log_lines
               /\ \A i \in 1..n :
                     /\ log_lines'[m + i].kind = "ended"
                     /\ log_lines'[m + i].alert_type = r.ended_streaks[i].alert_type
                     /\ log_lines'[m + i].seconds = r.ended_streaks[i].duration
               /\ r.is_new_streak =>
                     /\ log_lines'[m + n + 1].kind = "alert"
                     /\ log_lines'[m + n + 1].alert_type = K
               /\ \A T \in AlertTypes :
                     Cardinality({i \in 1..Len(log_lines') :
                                    /\ log_lines'[i].kind = "alert"
                                    /\ log_lines'[i].alert_type = T})
                        = runs'[T].started]_vars

\* A kind with more calls than alert lines, and a closing line in the log.
C10_Witness ==
    \E K \in DOMAIN alert_types :
        /\ alert_types[K] = 3
        /\ AlertLinesOf(K) = 2
        /\ \E i \in 1..Len(log_lines) :
              log_lines[i].kind = "ended" /\ log_lines[i].alert_type = K

\* The positions of the streaks of the active set that have timed out at t.
TimedOut(streaks, t) == {i \in 1..Len(streaks) : t - streaks[i].last_ts > streak_timeout}

\* C29: a should_log call for kind K at time now ends every active streak,
\* of any kind, whose last_ts is more than the timeout before now: the
\* streak leaves the active set (for K a new streak starts at now) and is
\* reported exactly once in ended_streaks with its own kind, duration =
\* last_ts - start_ts and count, and ended_streaks reports nothing else;
\* the streak of every other kind with now - last_ts <= timeout keeps its
\* start_ts, last_ts and count; and the active set changes in no step
\* that is not a call.
C29_SweepEndsAllTimedOut ==
    /\ [][\A K \in AlertTypes :
            CallLogAlert(K) =>
              LET ended == tracker_ret'.ended_streaks
              IN /\ Len(ended) = Cardinality(TimedOut(active_streaks, now))
                 /\ \A i \in 1..Len(active_streaks) :
                       LET st == active_streaks[i]
                           k2 == KeyIndex(active_streaks', st.alert_type)
                       IN IF i \in TimedOut(active_streaks, now)
                          THEN /\ Cardinality(EndedFor(ended, st.alert_type)) = 1
                               /\ \A e \in EndedFor(ended, st.alert_type) :
                                     /\ ended[e].duration = st.last_ts - st.start_ts
                                     /\ ended[e].count = st.count
                               /\ IF st.alert_type = K
                                  THEN k2 # 0 /\ active_streaks'[k2].start_ts = now
                                  ELSE k2 = 0
                          ELSE /\ EndedFor(ended, st.alert_type) = {}
                               /\ st.alert_type # K => (k2 # 0 /\ active_streaks'[k2] = st)]_vars
    /\ [][active_streaks' # active_streaks => LogAlert]_vars

\* A call for one kind has just ended the timed-out streak of another kind,
\* which lasted more than one event, and kept the streak of a third.
C29_Witness ==
    /\ Len(log_calls) = 4
    /\ Len(tracker_ret.ended_streaks) = 1
    /\ tracker_ret.ended_streaks[1].alert_type # log_calls[Len(log_calls)]
    /\ tracker_ret.ended_streaks[1].count = 2
    /\ tracker_ret.ended_streaks[1].duration > 0
    /\ Len(active_streaks) = 2
    /\ \E i \in 1..2 : active_streaks[i].last_ts < now

(***************************************************************************)
(* Specification SpecPublish: the writer's publish steps interleaved with  *)
(* a reader of the alert file.                                             *)
(***************************************************************************)
NextPublish ==
    \/ PubSetAlert
    \/ PubFlushBegin
    \/ PubForceBegin
    \/ PubOpen
    \/ PubDump
    \/ PubReplace
    \/ PubFail
    \/ PubReturn
    \/ ReaderOpen
    \/ ReaderRead

SpecPublish == Init /\ [][NextPublish]_vars

\* C6: whatever the interleaving of the writer's steps with a reader, every
\* read returns a complete 5-element vector of 0/1 that was the in-memory
\* vector at some publish, never an empty or truncated document.
C6_AtomicPublish ==
    read_result.done =>
        /\ read_result.ok
        /\ Len(read_result.vec) = 5
        /\ AsVector(read_result.vec) \in published.vectors

\* A read that met a write ended with the vector of an earlier publish,
\* after the file had been replaced by a different one.
C6_Witness ==
    /\ read_result.done
    /\ published.overlapped
    /\ rfd = "none"
    /\ Parse(files[AlertFile]).ok
    /\ Parse(files[AlertFile]).vec # read_result.vec
    /\ Cardinality(published.vectors) >= 2

(***************************************************************************)
(* Specification SpecFrame: a session of process_frame calls, each         *)
(* collaborator reporting anything it can for each frame.                  *)
(***************************************************************************)
NextFrame ==
    \/ FrameBegin
    \/ FrameDetect
    \/ FramePresence
    \/ FramePresenceClear
    \/ FrameIdentity
    \/ FrameGaze
    \/ FrameObject
    \/ FrameFlush
    \/ FrameReturn
    \/ FrameTick

SpecFrame == Init /\ [][NextFrame]_vars

\* C7: during the frame loop the alert file changes only in the flush step
\* of a processed frame, which comes after every set_* call of that frame:
\* once the flush has written, the in-memory vector does not change before
\* the frame ends, so the vector written, which is the content of the alert
\* file, is the in-memory vector at the end of the frame.
C7_FlushAfterAllSetters ==
    /\ [](frame_written # <<>> =>
            /\ fpc = "return"
            /\ frame_written[1] = alert_state
            /\ Parse(files[AlertFile]).ok
            /\ AsVector(Parse(files[AlertFile]).vec) = alert_state)
    /\ [][files'[AlertFile] # files[AlertFile] =>
            /\ FrameFlush
            /\ frame_written' = <<alert_state'>>]_vars
    /\ [][alert_state' # alert_state => frame_written = <<>>]_vars

\* The second processed frame, with several faces and a phone, has reached
\* its end and its flush has replaced the vector published by the first
\* frame, in which no face was seen: no_face was cleared and the phone set
\* after multi_face was set, and only the final vector was written.
C7_Witness ==
    /\ fpc = "return"
    /\ frame_stats.processed = 2
    /\ frame.num_faces > 1
    /\ frame.object = "phone"
    /\ frame_written = <<[i \in Kinds |-> IF i \in {ALERT_PHONE, ALERT_MULTI_FACE} THEN 1 ELSE 0]>>
    /\ alert_cooldowns[ALERT_NO_FACE] # 0
    /\ alert_cooldowns[ALERT_NO_FACE] < alert_cooldowns[ALERT_MULTI_FACE]

\* C17: with frame_skip = N the frames processed are exactly those at the
\* captured positions that are multiples of N+1; after every call
\* total_frames_processed = floor(total_frames_captured / (N+1)), and the
\* session logger's total_frames equals total_frames_processed.
C17_FrameSkip ==
    /\ [](frame_stats.processed = frame_stats.captured \div (frame_skip + 1))
    /\ [](frame_stats.logged = frame_stats.processed)
    /\ [][FrameBegin =>
            /\ frame_stats'.captured = frame_stats.captured + 1
            /\ (fpc' = "detect") = (frame_stats'.captured % (frame_skip + 1) = 0)
            /\ (frame_stats'.processed = frame_stats.processed + 1) = (fpc' = "detect")
            /\ (frame_stats'.processed = frame_stats.processed) = (fpc' = "idle")]_vars

\* Two frames were processed and a skipped frame came after them.
C17_Witness ==
    /\ fpc = "idle"
    /\ frame_stats.processed = 2
    /\ frame_stats.logged = 2
    /\ frame_stats.captured = 2 * (frame_skip + 1) + 1
    /\ frame_counter = 1

\* C32: a skipped frame (frame_counter <= frame_skip after the increment)
\* invokes no collaborator and leaves the alert vector, the cooldown
\* timestamps, the dirty flag, the published alert file, the streak tracker
\* and the session logger statistics unchanged; it changes only
\* total_frames_captured and frame_counter.
C32_SkippedFrameInert ==
    [][(FrameBegin /\ frame_counter + 1 <= frame_skip) =>
          /\ fpc' = "idle"
          /\ frame_counter' = frame_counter + 1
          /\ frame_stats' = [frame_stats EXCEPT !.captured = @ + 1]
          /\ UNCHANGED <<frame, alert_state, alert_cooldowns, pending_write,
                         last_write_time, files, active_streaks, session_alerts,
                         total_alerts, alert_types, log_lines, frame_written>>]_vars

\* A frame was skipped after a processed frame that had set an alert and
\* logged it.
C32_Witness ==
    /\ fpc = "idle"
    /\ frame_counter = 1
    /\ frame_stats.processed = 1
    /\ frame_stats.captured = frame_skip + 2
    /\ \E i \in Kinds : alert_state[i] = 1
    /\ total_alerts > 0
    /\ active_streaks # <<>>

\* The collaborator of a stage was called for the current frame: the stage
\* ran with its detector loaded and enabled.
Invoked(outcome) == outcome \notin {"-", "off"}

\* C20: match_with_details and the eye detector are invoked during a
\* processed frame only if the presence stage counted exactly one face and
\* the stage is enabled; on frames with 0 faces or more than one face
\* neither is invoked.
C20_VerifyOnlyOneFace ==
    /\ [](Invoked(frame.identity) \/ Invoked(frame.gaze) => frame.num_faces = 1)
    /\ [](fpc \in {"identity", "gaze"} => frame.num_faces = 1)
    /\ [][frame'.identity # frame.identity /\ frame'.identity # "-" =>
            FrameIdentity /\ frame.num_faces = 1]_vars
    /\ [][frame'.gaze # frame.gaze /\ frame'.gaze # "-" =>
            FrameGaze /\ frame.num_faces = 1]_vars
    /\ [](AfterFrame /\ frame.num_faces # 1 =>
            frame.identity = "-" /\ frame.gaze = "-")

\* A frame with one face had both collaborators invoked, after an earlier
\* frame of the session was processed without them.
C20_Witness ==
    /\ AfterFrame
    /\ frame.num_faces = 1
    /\ frame.identity \in {"match", "mismatch"}
    /\ frame.gaze \in {"calm", "risk"}
    /\ frame_stats.processed = 2

PresenceBegin ==
    /\ frame_stats.processed < MaxProcessed
    /\ Admission

\* if self.face_matcher and self.face_matcher.enabled: not taken
PresenceIdentity == FrameIdentity /\ frame'.identity = "off"
\* if self.eye_detector and self.eye_detector.enabled: the else branch
PresenceGaze == FrameGaze /\ frame'.gaze = "off"
\* if self.phone_detector and self.phone_detector.enabled: the else branch
PresenceObject == FrameObject /\ frame'.object = "off"

NextPresence ==
    \/ PresenceBegin
    \/ FrameDetect
    \/ FramePresence
    \/ FramePresenceClear
    \/ PresenceIdentity
    \/ PresenceGaze
    \/ PresenceObject
    \/ FrameFlush
    \/ FrameReturn
    \/ FrameTick

SpecPresence == Init /\ [][NextPresence]_vars

\* The alert a processed frame has just logged for its face count.
LastAlert == session_alerts[Len(session_alerts)]
LoggedForFrame(alert_type, metadata) ==
    /\ Len(session_alerts') = Len(session_alerts) + 1
    /\ session_alerts'[Len(session_alerts')].type = alert_type
    /\ session_alerts'[Len(session_alerts')].severity = "warning"
    /\ session_alerts'[Len(session_alerts')].metadata = metadata

\* C18 as stated: after every processed frame whose face count is 0 the
\* in-memory state has no_face = 1 and multi_face = 0 and a no_face alert was
\* logged for the frame; after every processed frame whose face count is
\* greater than 1 it has multi_face = 1 and no_face = 0 and a multiple_faces
\* alert carrying the count was logged.
C18_PresenceBits ==
    /\ [](AfterFrame /\ frame.num_faces = 0 =>
            alert_state[ALERT_NO_FACE] = 1 /\ alert_state[ALERT_MULTI_FACE] = 0)
    /\ [](AfterFrame /\ frame.num_faces > 1 =>
            alert_state[ALERT_MULTI_FACE] = 1 /\ alert_state[ALERT_NO_FACE] = 0)
    /\ [][FramePresence =>
            /\ frame.num_faces = 0 => LoggedForFrame("no_face", <<>>)
            /\ frame.num_faces > 1 => LoggedForFrame("multiple_faces", <<frame.num_faces>>)]_vars

\* The bit the presence stage asks to activate is 1 afterwards unless it was
\* 0 and the request came less than cooldown_duration after the last
\* honoured activation of that bit.
ActivatedUnlessCooldown(index) ==
    alert_state'[index] =
        IF alert_state[index] = 0 /\ now - alert_cooldowns[index] < cooldown_duration
        THEN 0 ELSE 1

\* C18 amended: after every processed frame whose face count is 0 a no_face
\* alert was logged, multi_face = 0, and no_face = 1 unless the activation
\* fell inside the cooldown of no_face, in which case it stays 0; after
\* every processed frame whose face count is greater than 1 a multiple_faces
\* alert carrying the count was logged, no_face = 0, and multi_face = 1
\* unless the activation fell inside the cooldown of multi_face.
C18_PresenceBitsUnlessCooldown ==
    /\ [](AfterFrame /\ frame.num_faces = 0 =>
            /\ alert_state[ALERT_MULTI_FACE] = 0
            /\ alert_state[ALERT_NO_FACE] = 1 \/ alert_cooldowns[ALERT_NO_FACE] # 0)
    /\ [](AfterFrame /\ frame.num_faces > 1 =>
            /\ alert_state[ALERT_NO_FACE] = 0
            /\ alert_state[ALERT_MULTI_FACE] = 1 \/ alert_cooldowns[ALERT_MULTI_FACE] # 0)
    /\ [][FramePresence =>
            /\ frame.num_faces = 0 =>
                  /\ LoggedForFrame("no_face", <<>>)
                  /\ ActivatedUnlessCooldown(ALERT_NO_FACE)
            /\ frame.num_faces > 1 =>
                  /\ LoggedForFrame("multiple_faces", <<frame.num_faces>>)
                  /\ ActivatedUnlessCooldown(ALERT_MULTI_FACE)]_vars
    /\ [][(FramePresenceClear /\ frame.num_faces = 0) =>
            /\ alert_state'[ALERT_MULTI_FACE] = 0
            /\ alert_state'[ALERT_NO_FACE] = alert_state[ALERT_NO_FACE]]_vars
    /\ [][(FramePresenceClear /\ frame.num_faces > 1) =>
            /\ alert_state'[ALERT_NO_FACE] = 0
            /\ alert_state'[ALERT_MULTI_FACE] = alert_state[ALERT_MULTI_FACE]]_vars
    /\ [][(fpc \in {"object", "flush", "return"} /\ frame.num_faces # 1) =>
            /\ alert_state'[ALERT_NO_FACE] = alert_state[ALERT_NO_FACE]
            /\ alert_state'[ALERT_MULTI_FACE] = alert_state[ALERT_MULTI_FACE]]_vars

\* A frame without a face follows one with several: no_face was activated,
\* multi_face, active before, was cleared, and the alert is in the session.
C18_Witness ==
    /\ AfterFrame
    /\ frame.num_faces = 0
    /\ alert_state[ALERT_NO_FACE] = 1
    /\ alert_state[ALERT_MULTI_FACE] = 0
    /\ alert_cooldowns[ALERT_MULTI_FACE] # 0
    /\ LastAlert.type = "no_face"

\* The vector a consumer parses from the alert file.
PublishedVector == AsVector(Parse(files[AlertFile]).vec)

\* C37: no_face and multi_face are never both 1 at the end of a processed
\* frame, and never both 1 in the vector the alert file holds, for any
\* sequence of face counts and any timing relative to the cooldown.
C37_PresenceBitsExclusive ==
    /\ [](AfterFrame =>
            ~(alert_state[ALERT_NO_FACE] = 1 /\ alert_state[ALERT_MULTI_FACE] = 1))
    /\ [](/\ Parse(files[AlertFile]).ok
          /\ ~(PublishedVector[ALERT_NO_FACE] = 1 /\ PublishedVector[ALERT_MULTI_FACE] = 1))
    /\ [][files'[AlertFile] # files[AlertFile] => FrameFlush]_vars

\* A frame with several faces has ended and published multi_face alone,
\* after a frame without a face had published no_face.
C37_Witness ==
    /\ AfterFrame
    /\ frame.num_faces > 1
    /\ frame_written # <<>>
    /\ PublishedVector[ALERT_MULTI_FACE] = 1
    /\ PublishedVector[ALERT_NO_FACE] = 0
    /\ alert_cooldowns[ALERT_NO_FACE] # 0
    /\ alert_cooldowns[ALERT_NO_FACE] < alert_cooldowns[ALERT_MULTI_FACE]

\* C38: at the end of a processed frame face_mismatch = 1 or eye_movement
\* = 1 only if that frame had exactly one face.
C38_SingleFaceAlertsOnly ==
    (AfterFrame /\ frame.num_faces # 1) =>
        /\ alert_state[ALERT_FACE_MISMATCH] = 0
        /\ alert_state[ALERT_EYE_MOVEMENT] = 0

\* C19: after every processed frame with exactly one face no_face and
\* multi_face are both 0 in memory, however recently either was activated,
\* and the cleared value is what the next write of the alert file publishes:
\* once the frame is over either the file shows both bits cleared or the
\* write is still pending, waiting for the write interval.
C19_RecoveryPublished ==
    /\ [](AfterFrame /\ frame.num_faces = 1 =>
            alert_state[ALERT_NO_FACE] = 0 /\ alert_state[ALERT_MULTI_FACE] = 0)
    /\ [](AfterFrame /\ frame.num_faces = 1 =>
            \/ pending_write
            \/ /\ Parse(files[AlertFile]).ok
               /\ PublishedVector[ALERT_NO_FACE] = 0
               /\ PublishedVector[ALERT_MULTI_FACE] = 0)

(***************************************************************************)
(* Specification SpecSession: a session that logs alerts and is then torn  *)
(* down, by the finally block of run() and by stop(); the summary may be   *)
(* asked for at any time.                                                  *)
(***************************************************************************)
NextSession ==
    \/ SessionLogAlert
    \/ SessionSummary
    \/ CleanupBegin("run")
    \/ CleanupBegin("stop")
    \/ CleanupLogger
    \/ CleanupClear
    \/ CleanupWrite
    \/ CleanupRelease
    \/ SessionTick

SpecSession == Init /\ [][NextSession]_vars

\* C11: close() emits one closing line per streak in the active set, with
\* duration = last_ts - start_ts, and ends these streaks: after it the
\* tracker holds no active streak.
C11_CloseEndsStreaks ==
    [][CleanupLogger =>
         /\ handlers =>
              /\ Len(log_lines') = Len(log_lines) + Len(active_streaks)
              /\ \A i \in 1..Len(active_streaks) :
                    /\ log_lines'[Len(log_lines) + i].kind = "ended"
                    /\ log_lines'[Len(log_lines) + i].alert_type = active_streaks[i].alert_type
                    /\ log_lines'[Len(log_lines) + i].seconds =
                         active_streaks[i].last_ts - active_streaks[i].start_ts
         /\ active_streaks' = <<>>]_vars

\* C12: end_time is None and there is no summary file before close(), and
\* however often and from wherever the teardown is entered, end_time is
\* assigned once and the summary is written at most once.
C12_EndTimeSetOnce ==
    /\ session_hist.closes = 0 => (end_time = <<>> /\ alerts_file = <<>>)
    /\ session_hist.end_sets <= 1
    /\ session_hist.saves <= 1
    /\ (session_hist.entries # <<>> /\ cpc = "idle") => session_hist.end_sets = 1

\* C13: the value get_session_summary returned stays what it was at the
\* return, and its total_alerts is the sum of its per-kind counts.
C13_SummaryIsSnapshot ==
    summary.taken =>
        /\ SummaryNow = SummaryAtReturn
        /\ SummaryNow.total_alerts =
             SumOver(SummaryNow.alert_types, DOMAIN SummaryNow.alert_types)

\* C23: the teardown first clears and force-publishes the alert state, then
\* closes the session logger, then releases the detectors, the camera and
\* the display: the logger is still open when the alert state is cleared
\* and written, and closed when the resources are released.
C23_TeardownOrder ==
    /\ [][(CleanupClear \/ CleanupWrite) =>
            (handlers /\ end_time = <<>>)]_vars
    /\ [][CleanupLogger => cpc' = "release"]_vars
    /\ [][CleanupRelease => ~handlers]_vars

(***************************************************************************)
(* Specification SpecBuffer: one process inside write_frame and another    *)
(* inside read_frame / read_frame_info, their steps interleaved.           *)
(***************************************************************************)
NextBuffer ==
    \/ BufWriteBegin
    \/ BufWriteHeader
    \/ BufWritePayload
    \/ BufWriteFlush
    \/ BufReadHeader
    \/ BufReadPayload
    \/ BufReadInfo

SpecBuffer == Init /\ [][NextBuffer]_vars

\* C14: a read that met no write, made after at least one successful
\* write_frame, returns the width, height, channels and bytes of the last
\* successful write, and read_frame_info its dimensions and frame_size.
C14_RoundTrip ==
    [][(bw.pc = "idle" /\ buf_hist.last_ok # NoImage) =>
         /\ (BufReadPayload /\ br.clean) =>
               /\ br'.done = "frame"
               /\ br'.frame = buf_hist.last_ok
         /\ BufReadHeader => br'.pc = "payload"
         /\ BufReadInfo =>
               /\ br'.done = "info"
               /\ br'.header.width = buf_hist.last_ok.width
               /\ br'.header.height = buf_hist.last_ok.height
               /\ br'.header.channels = buf_hist.last_ok.channels
               /\ br'.header.frame_size = Len(buf_hist.last_ok.bytes)]_vars

\* A small frame was read back exactly while the bytes of a larger, older
\* frame still lie behind it in the payload area.
C14_Witness ==
    /\ br.clean
    /\ bw.pc = "idle"
    /\ br.done = "frame"
    /\ br.frame = buf_hist.last_ok
    /\ Len(br.frame.bytes) < MAX_FRAME_SIZE
    /\ shm.data[MAX_FRAME_SIZE] # 0
    /\ shm.data[MAX_FRAME_SIZE] # br.frame.bytes[1]

\* C15: write_frame with a frame larger than MAX_FRAME_SIZE returns False
\* and leaves header and payload as they were; the frame_size of the header
\* never exceeds MAX_FRAME_SIZE.
C15_OversizeRejected ==
    /\ [](shm.header.frame_size <= MAX_FRAME_SIZE)
    /\ [](bw.pc # "idle" => Size(bw.frame) <= MAX_FRAME_SIZE)
    /\ [][(BufWriteBegin /\ buf_hist'.rejected) =>
            /\ bw'.pc = "idle"
            /\ bw'.ret = FALSE
            /\ shm' = shm]_vars

\* A write was rejected while the frame written before is in the buffer,
\* and a read that met no write returned that frame.
C15_Witness ==
    /\ buf_hist.rejected
    /\ buf_hist.last_ok # NoImage
    /\ shm.header.frame_size = Len(buf_hist.last_ok.bytes)
    /\ bw.pc = "idle"
    /\ br.clean
    /\ br.done = "frame"
    /\ br.frame = buf_hist.last_ok

\* C16: in every interleaving the frame a read returns is a written frame:
\* the last one written before the read, or one written during it.
C16_NoTornEnvelope ==
    [][(BufReadPayload /\ br'.done = "frame") => br'.frame \in buf_hist.candidates]_vars

(***************************************************************************)
(* Specification SpecObject: the frame loop of a pipeline whose phone      *)
(* detector is loaded and enabled while the face matcher and the eye       *)
(* detector are not: the presence and object stages act on the store.      *)
(* The frames follow each other within one clock tick, well inside the     *)
(* cooldown of whatever the first of them activated.                       *)
(***************************************************************************)
\* if self.phone_detector and self.phone_detector.enabled: the try block
ObjectEnabled == FrameObject /\ frame'.object # "off"

NextObject ==
    \/ PresenceBegin
    \/ FrameDetect
    \/ FramePresence
    \/ FramePresenceClear
    \/ PresenceIdentity
    \/ PresenceGaze
    \/ ObjectEnabled
    \/ FrameFlush
    \/ FrameReturn

SpecObject == Init /\ [][NextObject]_vars

\* The phone detector returned a result for the current frame.
Classified == frame.object \in {"clear", "phone"}
PhoneBit == IF frame.object = "phone" THEN 1 ELSE 0

\* C21: on every processed frame whose object stage returns without error,
\* for every face count and whatever the cooldown, the phone bit after the
\* frame is 1 if a phone was detected and 0 otherwise, and every positive
\* frame appends a critical alert to the session.
C21_PhoneBitFollowsFrame ==
    /\ []((fpc \in {"flush", "return"} /\ Classified) => alert_state[ALERT_PHONE] = PhoneBit)
    /\ [][(FrameObject /\ frame'.object = "phone") =>
            /\ alert_state'[ALERT_PHONE] = 1
            /\ Len(session_alerts') = Len(session_alerts) + 1
            /\ session_alerts'[Len(session_alerts')].type = "cheating_phone_detected"
            /\ session_alerts'[Len(session_alerts')].severity = "critical"]_vars
    /\ [][(FrameObject /\ frame'.object = "clear") =>
            /\ alert_state'[ALERT_PHONE] = 0
            /\ session_alerts' = session_alerts]_vars

\* A phone is seen again, on a frame without a face, less than
\* cooldown_duration after the activation an earlier frame made and a
\* frame in between cleared.
C21_Witness ==
    /\ AfterFrame
    /\ frame.object = "phone"
    /\ frame.num_faces = 0
    /\ alert_state[ALERT_PHONE] = 1
    /\ frame_stats.processed = 3
    /\ Len(SelectSeq(session_alerts, LAMBDA a : a.type = "cheating_phone_detected")) = 2
    /\ now - StartTime < cooldown_duration

(***************************************************************************)
(* Specification SpecRun: one execution of run(), from initialize to the   *)
(* return, stopped by the exit key, an interrupt or an exception.          *)
(***************************************************************************)
\* The steps of process_frame inside the loop, with the later stages off.
RunFrameBegin == FrameDue /\ fpc = "idle" /\ FrameBegin
RunFrameStep ==
    /\ rpc = "call"
    /\ \/ FrameDetect
       \/ FramePresence
       \/ FramePresenceClear
       \/ PresenceIdentity
       \/ PresenceGaze
       \/ PresenceObject
       \/ FrameFlush
       \/ FrameReturn

NextRun ==
    \/ RunInitialize
    \/ CameraDies
    \/ RunRead
    \/ RunContinue
    \/ RunFrameBegin
    \/ RunFrameStep
    \/ RunShow
    \/ RunAbort("interrupt")
    \/ RunAbort("exception")
    \/ RunFinally
    \/ CleanupLogger
    \/ CleanupClear
    \/ CleanupWrite
    \/ CleanupRelease
    \/ RunReturn

SpecRun == Init /\ [][NextRun]_vars

\* C24: every execution of run() performs the teardown before it returns,
\* however it stops (exit key, interrupt, exception, or a failure of
\* initialize): when run() has returned, cleanup() was entered, the session
\* logger is closed and the alert state was force-published.
C24_RunAlwaysTearsDown ==
    rpc = "returned" =>
        /\ session_hist.entries # <<>>
        /\ session_hist.closes >= 1
        /\ ~handlers
        /\ end_time # <<>>
        /\ ~pending_write

\* C25: when the teardown has completed every slot of the in-memory vector
\* is 0, the dirty flag is clear and the alert file holds [0,0,0,0,0],
\* whatever was active, in cooldown or still unpublished when the loop
\* stopped.
C25_TeardownPublishesZeros ==
    (rpc = "returned" /\ session_hist.entries # <<>>) =>
        /\ alert_state = ZeroState
        /\ ~pending_write
        /\ Parse(files[AlertFile]).ok
        /\ PublishedVector = ZeroState

\* The steps run() takes by itself: everything but the death of the camera,
\* an interrupt and an exception.
RunProgress ==
    \/ RunInitialize
    \/ RunRead
    \/ RunContinue
    \/ RunFrameBegin
    \/ RunFrameStep
    \/ RunShow
    \/ RunFinally
    \/ CleanupLogger
    \/ CleanupClear
    \/ CleanupWrite
    \/ CleanupRelease
    \/ RunReturn

\* SpecRunLive: the thread of run() keeps running.
SpecRunLive == SpecRun /\ WF_vars(RunProgress)

\* C26: once the camera has failed terminally the main loop eventually
\* stops and the teardown runs; run() returns.
C26_DeadCameraStopsLoop ==
    (camera = "dead") ~> (rpc = "returned" /\ session_hist.closes >= 1)

(***************************************************************************)
(* Specification SpecStartup: ProctorPipeline.__init__ loads the detectors *)
(* the configuration asks for, then run() initializes and enters the loop. *)
(***************************************************************************)
\* _initialize_detectors: load_model() returns True, or it returns False or
\* raises and the attribute is set back to None.
LoadOutcomes == {"loaded", "failed"}
Collaborators == {"face", "matcher", "eye", "phone"}
InitializeDetectors ==
    /\ rpc = "start"
    /\ detectors = <<>>
    /\ detectors' \in [Collaborators -> LoadOutcomes]
    /\ UNCHANGED <<now, storeVars, files, histVars, logVars, pubVars, frameVars,
                   sessionVars, bufferVars, lockVars, rpc, camera, run_hist>>

\* if self.<collaborator> and self.<collaborator>.enabled
Enabled(collaborator) == detectors[collaborator] = "loaded"
Ran(collaborator, outcome) == (outcome # "off") = Enabled(collaborator)

StartupRun == detectors # <<>> /\ RunInitialize
StartupDetect == rpc = "call" /\ FrameDetect /\ Ran("face", frame'.face)
StartupIdentity == rpc = "call" /\ FrameIdentity /\ Ran("matcher", frame'.identity)
StartupGaze == rpc = "call" /\ FrameGaze /\ Ran("eye", frame'.gaze)
StartupObject == rpc = "call" /\ FrameObject /\ Ran("phone", frame'.object)
StartupFrameStep ==
    /\ rpc = "call"
    /\ FramePresence \/ FramePresenceClear \/ FrameFlush \/ FrameReturn

NextStartup ==
    \/ InitializeDetectors
    \/ StartupRun
    \/ RunRead
    \/ RunContinue
    \/ RunFrameBegin
    \/ StartupDetect
    \/ StartupIdentity
    \/ StartupGaze
    \/ StartupObject
    \/ StartupFrameStep
    \/ RunShow

SpecStartup == Init /\ [][NextStartup]_vars

\* C27: if the face detector fails to load, startup aborts and no frame is
\* ever processed; a load failure of the face matcher, the eye detector or
\* the phone detector only disables that stage, and the pipeline starts.
C27_FaceLoadFailureAborts ==
    /\ []((detectors # <<>> /\ ~Enabled("face")) =>
            /\ rpc \in {"start", "returned"}
            /\ frame_stats.processed = 0)
    /\ []((detectors # <<>> /\ fpc = "return") =>
            /\ ~Enabled("matcher") => frame.identity \in {"-", "off"}
            /\ ~Enabled("eye") => frame.gaze \in {"-", "off"}
            /\ ~Enabled("phone") => frame.object = "off")

(***************************************************************************)
(* Specification SpecSummary: ProctorLogger.close step by step inside the  *)
(* teardown, with a reader of the summary file (alerts_file).  save_session *)
(* opens the file itself with open(self.alerts_file, 'w') and json.dump    *)
(* writes into it; the file is closed when the with block is left.         *)
(***************************************************************************)
\* The file after open(..., 'w') and until json.dump has written the whole
\* document and the file is closed: empty or a prefix of the document.
Truncated(t) == [SummaryDoc(t) EXCEPT !.complete = FALSE]

\* close() up to the try block of save_session: the closing lines, then
\* session_data['end_time'] is assigned.
CloseBegin ==
    /\ cpc = "logger"
    /\ cpc' = "save_open"
    /\ get_session_summary
    /\ LET active == get_all_active_streaks(active_streaks)
           closing == [i \in 1..Len(active) |-> EndedLine(active[i])]
       IN log_lines' = IF handlers THEN log_lines \o closing ELSE log_lines
    /\ end_time' = <<now>>
    /\ session_hist' = [session_hist EXCEPT !.end_sets = @ + 1]
    /\ UNCHANGED <<now, storeVars, files, active_streaks, session_alerts, total_alerts,
                   alert_types, tracker_ret, log_calls, runs,
                   alerts_file, handlers, notSession>>

\* save_session: open(self.alerts_file, 'w') creates or truncates the file.
SaveOpen ==
    /\ cpc = "save_open"
    /\ cpc' = "save_dump"
    /\ alerts_file' = <<Truncated(end_time[1])>>
    /\ UNCHANGED <<now, storeVars, files, logVars,
                   end_time, handlers, summary, session_hist, notSession>>

\* save_session: json.dump(self.session_data, f) and the end of the with block.
SaveDump ==
    /\ cpc = "save_dump"
    /\ cpc' = "saved"
    /\ alerts_file' = <<SummaryDoc(end_time[1])>>
    /\ UNCHANGED <<now, storeVars, files, logVars,
                   end_time, handlers, summary, session_hist, notSession>>

\* save_session: open() or json.dump raises; the exception is caught and
\* the file stays as it is.
SaveFail ==
    /\ cpc \in {"save_open", "save_dump"}
    /\ cpc' = "unsaved"
    /\ UNCHANGED <<now, storeVars, files, logVars,
                   end_time, alerts_file, handlers, summary, session_hist, notSession>>

\* close() after save_session: the handlers are closed and removed.
CloseReturn ==
    /\ cpc \in {"saved", "unsaved"}
    /\ cpc' = "alerts"
    /\ handlers' = FALSE
    /\ session_hist' = [session_hist EXCEPT
                          !.closes = @ + 1,
                          !.saves = @ + (IF cpc = "saved" THEN 1 ELSE 0)]
    /\ UNCHANGED <<now, storeVars, files, logVars,
                   end_time, alerts_file, summary, notSession>>

\* Another process reads the summary file, whatever the logger is doing:
\* it finds no file, or reads what the file holds now.
SummaryRead ==
    /\ read_result' = [done |-> TRUE,
                       ok |-> (alerts_file = <<>> \/ alerts_file[1].complete),
                       vec |-> <<>>]
    /\ UNCHANGED <<now, storeVars, files, logVars, sessionVars, histVars, frameVars,
                   bufferVars, lockVars, runVars, writerVars, rfd, orphan, published>>

NextSummary ==
    \/ SessionLogAlert
    \/ CleanupBegin("run")
    \/ CleanupBegin("stop")
    \/ CloseBegin
    \/ SaveOpen
    \/ SaveDump
    \/ SaveFail
    \/ CloseReturn
    \/ CleanupClear
    \/ CleanupWrite
    \/ CleanupRelease
    \/ SummaryRead
    \/ SessionTick

SpecSummary == Init /\ [][NextSummary]_vars

\* C30: the summary document is written atomically: whenever another
\* process reads the summary file, close() running or not, it finds no
\* file or the complete document.
C30_SummaryAtomic ==
    read_result.done => read_result.ok

(***************************************************************************)
(* Specification SpecLock: one thread calling log_alert and one thread     *)
(* calling get_session_summary, statement by statement, both bodies under  *)
(* `with self.lock`.                                                       *)
(***************************************************************************)
notLock == <<storeVars, files, histVars, pubVars, frameVars, sessionVars, bufferVars, runVars>>

\* with self.lock: the thread waits until the lock is free and takes it.
AcquireUnguarded(thread) == lock' = thread
Acquire(thread) == lock = "free" /\ lock' = thread

\* log_alert is called and enters the with block.
LockLogBegin ==
    \E alert_type \in AlertTypes :
        /\ lpc.pc = "idle"
        /\ Len(log_calls) < MaxSessionCalls
        /\ Acquire("log_alert")
        /\ lpc' = [lpc EXCEPT !.pc = "tracker", !.alert_type = alert_type,
                              !.severity = SeverityOf(alert_type)]
        /\ log_calls' = Append(log_calls, alert_type)
        /\ UNCHANGED <<now, loggerVars, tracker_ret, runs, notLock>>

\* log_alert: time.time(), should_log and the closing lines of the streaks
\* that ended.
LockLogTracker ==
    /\ lpc.pc = "tracker"
    /\ LET r == should_log(active_streaks, lpc.alert_type, now)
           closing == [i \in 1..Len(r.ended_streaks) |-> EndedLine(r.ended_streaks[i])]
       IN /\ active_streaks' = r.streaks
          /\ tracker_ret' = [should_log |-> r.should_log, is_new_streak |-> r.is_new_streak,
                             streak_count |-> r.streak_count,
                             ended_streaks |-> r.ended_streaks]
          /\ log_lines' = log_lines \o closing
          /\ lpc' = [lpc EXCEPT !.pc = "stats", !.should_log = r.should_log,
                                !.is_new_streak = r.is_new_streak,
                                !.streak_count = r.streak_count]
    /\ UNCHANGED <<now, session_alerts, total_alerts, alert_types, log_calls, runs,
                   lock, notLock>>

\* log_alert: the alert is appended and the two counters are incremented.
LockLogStats ==
    /\ lpc.pc = "stats"
    /\ session_alerts' = Append(session_alerts,
                                [type |-> lpc.alert_type, severity |-> lpc.severity,
                                 metadata |-> <<>>, streak_count |-> lpc.streak_count])
    /\ total_alerts' = total_alerts + 1
    /\ alert_types' = CountType(alert_types, lpc.alert_type)
    /\ lpc' = [lpc EXCEPT !.pc = "emit"]
    /\ UNCHANGED <<now, active_streaks, log_lines, logHistVars, lock, notLock>>

\* log_alert: the line of the alert, if it starts a streak.
LockLogEmit ==
    /\ lpc.pc = "emit"
    /\ IF ShouldEmit(lpc.should_log, lpc.is_new_streak)
       THEN /\ log_lines' = Append(log_lines, AlertLine(lpc.alert_type, lpc.severity))
            /\ lpc' = [lpc EXCEPT !.pc = "release",
                                  !.lined = Len(log_calls),
                                  !.lined_of[lpc.alert_type] =
                                      Occurrences(log_calls, lpc.alert_type)]
       ELSE /\ log_lines' = log_lines
            /\ lpc' = [lpc EXCEPT !.pc = "release"]
    /\ UNCHANGED <<now, active_streaks, session_alerts, total_alerts, alert_types,
                   logHistVars, lock, notLock>>

\* log_alert leaves the with block.
LockLogRelease ==
    /\ lpc.pc = "release"
    /\ lock' = "free"
    /\ lpc' = [lpc EXCEPT !.pc = "idle"]
    /\ UNCHANGED <<now, logVars, notLock>>

\* get_session_summary is called and enters the with block.
LockSummaryBegin ==
    /\ lpc.spc = "idle"
    /\ Acquire("summary")
    /\ lpc' = [lpc EXCEPT !.spc = "inside"]
    /\ UNCHANGED <<now, logVars, notLock>>

\* get_session_summary builds the dict, leaves the with block and returns.
LockSummaryReturn ==
    /\ lpc.spc = "inside"
    /\ get_session_summary
    /\ lock' = "free"
    /\ lpc' = [lpc EXCEPT !.spc = "idle"]
    /\ UNCHANGED <<now, storeVars, files, logVars, histVars, pubVars, frameVars,
                   end_time, alerts_file, handlers, cpc, session_hist,
                   bufferVars, runVars>>

LockTick ==
    /\ now < StartTime + SessionHorizon
    /\ now' = now + 1
    /\ UNCHANGED <<logVars, lockVars, notLock>>

NextLock ==
    \/ LockLogBegin
    \/ LockLogTracker
    \/ LockLogStats
    \/ LockLogEmit
    \/ LockLogRelease
    \/ LockSummaryBegin
    \/ LockSummaryReturn
    \/ LockTick

SpecLock == Init /\ [][NextLock]_vars

CountIn(counts, alert_type) ==
    IF alert_type \in DOMAIN counts THEN counts[alert_type] ELSE 0

\* C31: in any interleaving of a thread calling log_alert with a thread
\* calling get_session_summary, the total_alerts and the per-kind count a
\* summary returns include every event whose start-of-streak line has been
\* emitted by then; the counter update and the line emission of an event
\* happen while log_alert holds the lock, and the summary is built while
\* get_session_summary holds it.
C31_LineImpliesCounted ==
    /\ [][LockSummaryReturn =>
            /\ summary'.total_alerts >= lpc.lined
            /\ \A K \in AlertTypes :
                  CountIn(summary'.alert_types_at_return, K) >= lpc.lined_of[K]]_vars
    /\ [](lpc.pc # "idle" => lock = "log_alert")
    /\ [](lpc.spc # "idle" => lock = "summary")

\* A summary was returned between two events: it counts the first one,
\* whose line was out, and the second event is now between its counter
\* update and its line.
C31_Witness ==
    /\ summary.taken
    /\ summary.total_alerts = 1
    /\ lpc.lined = 1
    /\ lpc.pc = "emit"
    /\ total_alerts = 2

(***************************************************************************)
(* Specification SpecDegrade: the detectors are loaded (or fail to load),  *)
(* frames are processed, and enable_detector / disable_detector are called *)
(* between frames.                                                         *)
(***************************************************************************)
\* BaseDetector.disable / enable through ProctorPipeline.disable_detector /
\* enable_detector: only a detector that loaded is in self.detectors.
DisableDetector ==
    \E c \in Collaborators \ {"face"} :
        /\ fpc = "idle"
        /\ detectors # <<>>
        /\ detectors[c] = "loaded"
        /\ detectors' = [detectors EXCEPT ![c] = "disabled"]
        /\ UNCHANGED <<now, storeVars, files, histVars, logVars, pubVars, frameVars,
                       sessionVars, bufferVars, lockVars, rpc, camera, run_hist>>

EnableDetector ==
    \E c \in Collaborators \ {"face"} :
        /\ fpc = "idle"
        /\ detectors # <<>>
        /\ detectors[c] = "disabled"
        /\ detectors' = [detectors EXCEPT ![c] = "loaded"]
        /\ UNCHANGED <<now, storeVars, files, histVars, logVars, pubVars, frameVars,
                       sessionVars, bufferVars, lockVars, rpc, camera, run_hist>>

DegradeBegin == detectors # <<>> /\ FrameBegin
DegradeDetect == FrameDetect /\ Ran("face", frame'.face)
DegradeIdentity == FrameIdentity /\ Ran("matcher", frame'.identity)
DegradeGaze == FrameGaze /\ Ran("eye", frame'.gaze)
DegradeObject == FrameObject /\ Ran("phone", frame'.object)

NextDegrade ==
    \/ InitializeDetectors
    \/ DisableDetector
    \/ EnableDetector
    \/ DegradeBegin
    \/ DegradeDetect
    \/ FramePresence
    \/ FramePresenceClear
    \/ DegradeIdentity
    \/ DegradeGaze
    \/ DegradeObject
    \/ FrameFlush
    \/ FrameReturn

SpecDegrade == Init /\ [][NextDegrade]_vars

\* C33: after every processed frame on which the gaze stage is disabled or
\* unavailable, and after every processed frame on which it ran and found
\* no eye at risk, eye_movement is 0 in memory.
C33_EyeMovementNeverStale ==
    (AfterFrame /\ (~Enabled("eye") \/ frame.gaze = "calm"))
        => alert_state[ALERT_EYE_MOVEMENT] = 0

\* C34: after every processed frame during which the identity stage
\* (respectively the object stage) failed to load or is disabled,
\* face_mismatch (respectively phone) is 0.
C34_DegradedStageHeldCleared ==
    /\ (AfterFrame /\ ~Enabled("matcher")) => alert_state[ALERT_FACE_MISMATCH] = 0
    /\ (AfterFrame /\ ~Enabled("phone")) => alert_state[ALERT_PHONE] = 0

(***************************************************************************)
(* Specification SpecTeardown: ProctorPipeline.cleanup and                 *)
(* CameraPipeline.cleanup try block by try block; the body of any try      *)
(* block may raise.                                                        *)
(***************************************************************************)
StepOutcomes == {"ok", "raise"}

\* The statement reached when a try block is left, by its end or through
\* its `except Exception` handler.
AfterStepUnguarded(step, outcome) ==
    IF outcome = "raise" THEN "idle"
    ELSE CASE step = "report" -> "session_logger"
           [] step = "session_logger" -> "alert_comm"
           [] step = "alert_comm" -> "FaceDetector"
           [] step = "FaceDetector" -> "FaceMatcher"
           [] step = "FaceMatcher" -> "EyeMovementDetector"
           [] step = "EyeMovementDetector" -> "PhoneDetector"
           [] step = "PhoneDetector" -> "camera"
           [] step = "camera" -> "display"
           [] step = "display" -> "idle"
AfterStep(step, outcome) ==
    CASE step = "report" -> "session_logger"
      [] step = "session_logger" -> "alert_comm"
      [] step = "alert_comm" -> "FaceDetector"
      [] step = "FaceDetector" -> "FaceMatcher"
      [] step = "FaceMatcher" -> "EyeMovementDetector"
      [] step = "EyeMovementDetector" -> "PhoneDetector"
      [] step = "PhoneDetector" -> "camera"
      [] step = "camera" -> "display"
      [] step = "display" -> "idle"

\* A try block is entered and left.
Entered(step, outcome) ==
    /\ cpc = step
    /\ cpc' = AfterStep(step, outcome)
    /\ session_hist' = [session_hist EXCEPT
                          !.steps = Append(@, [step |-> step, outcome |-> outcome])]

\* cleanup() is entered from the finally block of run().
TeardownBegin ==
    /\ cpc = "idle"
    /\ fpc = "idle"
    /\ session_hist.entries = <<>>
    /\ cpc' = "report"
    /\ session_hist' = [session_hist EXCEPT !.entries = Append(@, "run")]
    /\ UNCHANGED <<now, storeVars, files, logVars, end_time, alerts_file, handlers, summary,
                   notSession>>

\* get_proctoring_report() and the report lines of the application log.
TeardownReport ==
    \E outcome \in StepOutcomes :
        /\ Entered("report", outcome)
        /\ UNCHANGED <<now, storeVars, files, logVars, end_time, alerts_file, handlers,
                       summary, notSession>>

\* get_session_summary() and session_logger.close().
TeardownLogger ==
    \/ /\ Entered("session_logger", "ok")
       /\ get_session_summary
       /\ \E outcome \in SaveOutcomes : close(outcome)
       /\ UNCHANGED <<now, storeVars, files, session_alerts, total_alerts, alert_types,
                      logHistVars, notSession>>
    \/ /\ Entered("session_logger", "raise")
       /\ UNCHANGED <<now, storeVars, files, logVars, end_time, alerts_file, handlers,
                      summary, notSession>>

\* alert_comm.clear_all_alerts() and then alert_comm.force_write().
TeardownAlerts ==
    \/ /\ Entered("alert_comm", "ok")
       /\ \E outcome \in WriteOutcomes :
             /\ alert_state' = ZeroState
             /\ files' = write_state(files, ZeroState, outcome)
             /\ pending_write' = FALSE
             /\ last_write_time' = now
             /\ ret' = FALSE
       /\ UNCHANGED <<now, alert_cooldowns, logVars, end_time, alerts_file, handlers,
                      summary, notSession>>
    \/ /\ Entered("alert_comm", "raise")
       /\ UNCHANGED <<now, storeVars, files, logVars, end_time, alerts_file, handlers,
                      summary, notSession>>

\* detector.cleanup() of one registered detector, in its own try block
\* inside the loop.
TeardownDetector ==
    \E name \in {"FaceDetector", "FaceMatcher", "EyeMovementDetector", "PhoneDetector"},
       outcome \in StepOutcomes :
        /\ Entered(name, outcome)
        /\ UNCHANGED <<now, storeVars, files, logVars, end_time, alerts_file, handlers,
                       summary, notSession>>

\* CameraPipeline.cleanup: self.camera.stop()
TeardownCamera ==
    \E outcome \in StepOutcomes :
        /\ Entered("camera", outcome)
        /\ camera' = IF outcome = "ok" THEN "closed" ELSE camera
        /\ UNCHANGED <<now, storeVars, files, logVars, end_time, alerts_file, handlers,
                       summary, histVars, pubVars, frameVars, bufferVars, lockVars,
                       rpc, detectors, run_hist>>

\* CameraPipeline.cleanup: self.display.destroy_all()
TeardownDisplay ==
    \E outcome \in StepOutcomes :
        /\ Entered("display", outcome)
        /\ UNCHANGED <<now, storeVars, files, logVars, end_time, alerts_file, handlers,
                       summary, notSession>>

\* The frame loop before the teardown sets an alert.
TeardownSetAlert ==
    /\ session_hist.entries = <<>>
    /\ \E index \in Kinds :
          /\ Cardinality(Activated \cup {index}) <= MaxKinds
          /\ alert_state[index] = 0
          /\ Setter(index, TRUE)
    /\ UNCHANGED <<now, last_write_time, files, logVars, sessionVars, notSession>>

NextTeardown ==
    \/ TeardownSetAlert
    \/ TeardownBegin
    \/ TeardownReport
    \/ TeardownLogger
    \/ TeardownAlerts
    \/ TeardownDetector
    \/ TeardownCamera
    \/ TeardownDisplay

SpecTeardown == Init /\ [][NextTeardown]_vars

TeardownOrder ==
    <<"report", "session_logger", "alert_comm", "FaceDetector", "FaceMatcher",
      "EyeMovementDetector", "PhoneDetector", "camera", "display">>

\* C35: each teardown step is entered whatever the earlier steps did: a
\* step that fails is followed by the next step of the order (report,
\* session logger, alert state, each detector, camera, display), and a
\* teardown that has returned has entered all of them, once each.
C35_TeardownStepsGuarded ==
    /\ [](\A i \in 1..Len(session_hist.steps) :
             session_hist.steps[i].step = TeardownOrder[i])
    /\ []((cpc = "idle" /\ session_hist.entries # <<>>)
            => Len(session_hist.steps) = Len(TeardownOrder))
    /\ []((cpc # "idle" /\ session_hist.entries # <<>>)
            => cpc = TeardownOrder[Len(session_hist.steps) + 1])

\* A teardown has returned in which closing the session logger and the
\* cleanup of a detector failed and the later steps were done: the alert
\* file holds zeros and the camera is stopped.
C35_Witness ==
    /\ cpc = "idle"
    /\ Len(session_hist.steps) = Len(TeardownOrder)
    /\ session_hist.steps[2].outcome = "raise"
    /\ session_hist.steps[5].outcome = "raise"
    /\ session_hist.steps[3].outcome = "ok"
    /\ session_hist.steps[8].outcome = "ok"
    /\ handlers
    /\ alert_state = ZeroState
    /\ \E i \in Kinds : alert_cooldowns[i] # 0

(***************************************************************************)
(* Specification SpecFlushOk: the alert store under any sequence of        *)
(* set_alert, clear_alert, clear_all_alerts, flush_if_needed and           *)
(* force_write in which no write of the alert file fails.                  *)
(***************************************************************************)
\* flush_if_needed whose _write_state call, if it makes one, succeeds.
OkFlushIfNeeded == FlushIfNeeded /\ call'.write \in {"none", "ok"}
\* force_write whose _write_state call succeeds.
OkForceWrite == ForceWrite /\ call'.write = "ok"

NextFlushOk ==
    \/ FlushSetAlert
    \/ StoreClearAlert
    \/ FlushClearAll
    \/ OkFlushIfNeeded
    \/ OkForceWrite
    \/ Tick

SpecFlushOk == Init /\ [][NextFlushOk]_vars

\* C36: provided no write of the alert file fails, in every reachable
\* state in which pending_write is False the content of the alert file is
\* the in-memory alert vector; after construction and after any sequence of
\* set_alert, clear_alert, clear_all_alerts, flush_if_needed and force_write.
C36_CleanMeansPublished ==
    ~pending_write =>
        /\ files[AlertFile] = Dump(alert_state)
        /\ Parse(files[AlertFile]).ok
        /\ AsVector(Parse(files[AlertFile]).vec) = alert_state

\* A due flush_if_needed, later than the construction, has just written a
\* vector with an alert set.
C36_Witness ==
    /\ call.op = "flush_if_needed"
    /\ call.write = "ok"
    /\ ret = TRUE
    /\ ~pending_write
    /\ alert_state # ZeroState
    /\ last_write_time > StartTime

(***************************************************************************)
(* Specification SpecPersist: processed frames keep arriving, FramesPerTick *)
(* of them per unit of time; from the frame PersistFrom on the face        *)
(* detector reports no face on every frame.  The other stages are          *)
(* disabled.                                                               *)
(***************************************************************************)
MaxPersist == 5
PersistFrom == 3
FramesPerTick == 2

\* The frames the camera loop can have had processed by now.
FramesByNow == FramesPerTick * (now - StartTime + 1)

PersistBegin ==
    /\ frame_stats.processed < MaxPersist
    /\ frame_stats.processed < FramesByNow
    /\ Admission

\* STEP 1: before the frame PersistFrom the detector reports anything, from
\* it on no face.
PersistDetect ==
    /\ FrameDetect
    /\ frame_stats.processed >= PersistFrom => frame'.face = "none"

\* Time passes between frames, at the pace of the camera.
PersistTick ==
    /\ fpc = "idle"
    /\ frame_stats.processed = FramesByNow
    /\ frame_stats.processed < MaxPersist
    /\ now' = now + 1
    /\ UNCHANGED <<storeVars, files, logVars, frameVars, notFrame>>

NextPersist ==
    \/ PersistBegin
    \/ PersistDetect
    \/ FramePresence
    \/ FramePresenceClear
    \/ PresenceIdentity
    \/ PresenceGaze
    \/ PresenceObject
    \/ FrameFlush
    \/ FrameReturn
    \/ PersistTick

SpecPersist == Init /\ [][NextPersist]_vars

\* SpecPersistLive: the camera loop keeps running.
SpecPersistLive == SpecPersist /\ WF_vars(NextPersist)

MaxStreakCalls == 3
StreakHorizon == 6

\* log_alert as the frame loop calls it, before the teardown.
StreakLogAlert ==
    /\ session_hist.closes = 0
    /\ Len(log_calls) < MaxStreakCalls
    /\ LogAlert

StreakTick ==
    /\ session_hist.closes = 0
    /\ now < StartTime + StreakHorizon
    /\ now' = now + 1
    /\ UNCHANGED <<notLogger, logVars>>

\* ProctorLogger.close(), called by the teardown and again by a later one.
StreakClose ==
    /\ session_hist.closes < MaxTeardowns
    /\ \E outcome \in SaveOutcomes : close(outcome)
    /\ session_hist' = [session_hist EXCEPT !.closes = @ + 1]
    /\ UNCHANGED <<now, storeVars, files, log_calls, runs, summary, cpc, notSession>>

NextStreaks ==
    \/ StreakLogAlert
    \/ StreakTick
    \/ StreakClose

SpecStreaks == Init /\ [][NextStreaks]_vars

EndedLinesOf(alert_type) ==
    Cardinality({i \in 1..Len(log_lines) :
                    log_lines[i].kind = "ended" /\ log_lines[i].alert_type = alert_type})

\* C40: every streak that was started gets exactly one closing record in the
\* session log, from the log_alert call that found it timed out or from
\* close(): while the session is open the start lines of a kind exceed its
\* closing lines by one exactly when the kind has an active streak, a record
\* is written by log_alert only for a streak it removes, and once close()
\* has returned the two numbers are equal for every kind, however often the
\* teardown runs.
C40_OneClosingPerStreak ==
    /\ [](\A alert_type \in AlertTypes :
             /\ handlers =>
                  AlertLinesOf(alert_type) - EndedLinesOf(alert_type) =
                      IF KeyIndex(active_streaks, alert_type) # 0 THEN 1 ELSE 0
             /\ ~handlers => EndedLinesOf(alert_type) = AlertLinesOf(alert_type))
    /\ [][StreakLogAlert =>
            \A alert_type \in AlertTypes :
                EndedLinesOf(alert_type)' - EndedLinesOf(alert_type) =
                    Cardinality(EndedFor(tracker_ret'.ended_streaks, alert_type))]_vars

\* close() has returned in a session where one kind had a streak closed by
\* a later log_alert call and a second streak closed by close() itself.
C40_Witness ==
    /\ ~handlers
    /\ \E alert_type \in AlertTypes :
          /\ AlertLinesOf(alert_type) = 2
          /\ EndedLinesOf(alert_type) = 2
          /\ log_lines[Len(log_lines)].kind = "ended"
          /\ \E i \in 1..Len(log_lines) - 1 :
                /\ log_lines[i].kind = "ended"
                /\ log_lines[i].alert_type = alert_type
                /\ log_lines[i + 1].kind = "alert"

=============================================================================
